---- MODULE Spec2Model ----
(***************************************************************************)
(* A model of the mandelborder computation core: the escape kernels        *)
(* (Standard, SIMD, Border tracing, GPU), the storage buffer, the viewport *)
(* bounds and the grid (tile) scheduler.                                   *)
(*                                                                         *)
(* Abstractions:                                                           *)
(*  - doubles are exact rationals <<n, d>> (d > 0, reduced), with          *)
(*    <<1,0>>, <<-1,0>> and <<0,0>> for +inf, -inf and NaN;                *)
(*  - the orbit z_0 = c, z_{k+1} = z_k^2 + c of a point c is represented   *)
(*    by the set of indices k at which |z_k|^2 >= 4.0 (its escape set);    *)
(*    the variable plane assigns an escape set to every cell of a lattice  *)
(*    over the complex plane;                                              *)
(*  - MAX_ITER (768 in the source) is scaled down.                         *)
(***************************************************************************)
EXTENDS Integers, Sequences, FiniteSets, TLC

\* ---------------------------------------------------------------- bounds
\* MAX_ITER is 768 in src/src/mandelbrot_calculator.h:44; scaled for checking.
MAX_ITER == 3
\* Largest width and height of a standalone kernel.
MaxW == 5
MaxH == 5
\* Largest row width of the SIMD kernel inputs.
MaxSimdWidth == 9

\* ------------------------------------------------------ program constants
BATCH_SIZE == 8
LOADED == 1
QUEUED == 2
BORDER_PROGRESS == 1000
STANDARD_PROGRESS_LINES == 10

VARIABLES
    mode,      \* which object the behaviour exercises: "kernel" or "grid"
    plane,     \* the escape sets of the plane's cells (the input field)
    kern,      \* a standalone kernel object
    kpc,       \* position inside the standalone kernel's compute()
    khist,     \* buffer left by the last completed compute() of kern, with what followed
    grid,      \* a GridMandelbrotCalculator (the tile scheduler) with its tile kernels
    gpc,       \* position of the calling thread inside the scheduler's compute()
    threads,   \* the worker threads of a running parallel compute()
    glog       \* what the scheduler's calls did: accesses, composites, callbacks

kernVars == <<kern, kpc, khist>>
gridVars == <<grid, gpc, threads, glog>>
vars == <<mode, plane, kern, kpc, khist, grid, gpc, threads, glog>>

\* --------------------------------------------------------------- doubles
RECURSIVE GCD(_, _)
GCD(a, b) == IF b = 0 THEN a ELSE GCD(b, a % b)

Abs(n) == IF n < 0 THEN -n ELSE n
Sign(n) == IF n < 0 THEN -1 ELSE IF n > 0 THEN 1 ELSE 0

RNorm(n, d) ==
    IF d = 0 THEN <<Sign(n), 0>>
    ELSE LET g == GCD(Abs(n), Abs(d))
         IN  <<(Sign(d) * n) \div g, Abs(d) \div g>>

RInt(i) == <<i, 1>>
RHalf == <<1, 2>>
RNaN == <<0, 0>>
IsFinite(a) == a[2] # 0
IsNaN(a) == a = RNaN

RAdd(a, b) ==
    IF ~IsFinite(a) /\ ~IsFinite(b)
    THEN (IF a = b THEN a ELSE RNaN)
    ELSE RNorm(a[1] * b[2] + b[1] * a[2], a[2] * b[2])
RNeg(a) == <<-a[1], a[2]>>
RSub(a, b) == RAdd(a, RNeg(b))
RMul(a, b) == RNorm(a[1] * b[1], a[2] * b[2])
RDiv(a, b) == RNorm(a[1] * b[2] * (IF b[1] < 0 THEN -1 ELSE 1), a[2] * Abs(b[1]))
RLess(a, b) == ~IsNaN(a) /\ ~IsNaN(b) /\ a[1] * b[2] < b[1] * a[2]
\* std::max(a, b) is (a < b) ? b : a
RMax(a, b) == IF RLess(a, b) THEN b ELSE a
RFloor(a) == a[1] \div a[2]

\* ------------------------------------------------------- viewport bounds
\* ZoomMandelbrotCalculator::updateBounds: aspect-ratio preserving.
UpdateBounds(k, new_cre, new_cim, new_diam) ==
    LET half == RDiv(RMul(RMul(new_diam, RHalf), RInt(k.width)), RInt(k.height))
        nminr == RSub(new_cre, half)
        nmini == RSub(new_cim, RMul(new_diam, RHalf))
        nmaxr == RAdd(new_cre, half)
        nmaxi == RAdd(new_cim, RMul(new_diam, RHalf))
    IN  [k EXCEPT !.cre = new_cre, !.cim = new_cim, !.diam = new_diam,
                  !.minr = nminr, !.mini = nmini, !.maxr = nmaxr, !.maxi = nmaxi,
                  !.stepr = RDiv(RSub(nmaxr, nminr), RInt(k.width)),
                  !.stepi = RDiv(RSub(nmaxi, nmini), RInt(k.height))]

\* An updateBoundsExplicit that keeps the rectangle's centre and larger side and
\* derives the rest as updateBounds does.
UpdateBoundsExplicitAspect(k, new_minr, new_mini, new_maxr, new_maxi) ==
    UpdateBounds(k, RDiv(RAdd(new_minr, new_maxr), RInt(2)),
                    RDiv(RAdd(new_mini, new_maxi), RInt(2)),
                    RMax(RSub(new_maxr, new_minr), RSub(new_maxi, new_mini)))

\* ZoomMandelbrotCalculator::updateBoundsExplicit: the exact rectangle.
UpdateBoundsExplicit(k, new_minr, new_mini, new_maxr, new_maxi) ==
    [k EXCEPT !.minr = new_minr, !.mini = new_mini, !.maxr = new_maxr, !.maxi = new_maxi,
              !.cre = RDiv(RAdd(new_minr, new_maxr), RInt(2)),
              !.cim = RDiv(RAdd(new_mini, new_maxi), RInt(2)),
              !.diam = RMax(RSub(new_maxr, new_minr), RSub(new_maxi, new_mini)),
              !.stepr = RDiv(RSub(new_maxr, new_minr), RInt(k.width)),
              !.stepi = RDiv(RSub(new_maxi, new_mini), RInt(k.height))]

DefaultCre == <<-1, 2>>
DefaultCim == <<0, 1>>
DefaultDiam == <<3, 1>>

\* The fields every calculator has (ZoomMandelbrotCalculator's members), before
\* the constructor's updateBounds(-0.5, 0.0, 3.0).
ZoomFields(w, h) ==
    [width |-> w, height |-> h, speedMode |-> FALSE,
     cre |-> RNaN, cim |-> RNaN, diam |-> RNaN,
     minr |-> RNaN, mini |-> RNaN, maxr |-> RNaN, maxi |-> RNaN,
     stepr |-> RNaN, stepi |-> RNaN]

ZoomBounds(w, h) == UpdateBounds(ZoomFields(w, h), DefaultCre, DefaultCim, DefaultDiam)

\* ------------------------------------------------------ the escape orbit
EscapeSets == SUBSET (0 .. MAX_ITER - 1)

\* floor((c - origin) / step) for finite c, origin and step > 0, in one division.
CellIndex(c, origin, step) ==
    ((c[1] * origin[2] - origin[1] * c[2]) * step[2]) \div (c[2] * origin[2] * step[1])

\* The orbit of the point (cx, cy): the escape set of the plane cell holding it.
\* A point outside the lattice is far outside the set and escapes at once;
\* |NaN|^2 >= 4.0 is false at every step.
TrajAt(cx, cy) ==
    IF IsNaN(cx) \/ IsNaN(cy) THEN {}
    ELSE IF ~IsFinite(cx) \/ ~IsFinite(cy) THEN {0}
    ELSE LET X == CellIndex(cx, plane.minr, plane.stepr)
             Y == CellIndex(cy, plane.mini, plane.stepi)
         IN  IF X \in 0 .. plane.width - 1 /\ Y \in 0 .. plane.height - 1
             THEN plane.cells[Y * plane.width + X]
             ELSE {0}

\* A loop that runs while iter <= MAX_ITER.
RECURSIVE IterateFromInclusive(_, _)
IterateFromInclusive(esc, iter) ==
    IF iter <= MAX_ITER
    THEN (IF iter \in esc THEN iter ELSE IterateFromInclusive(esc, iter + 1))
    ELSE iter

\* StandardMandelbrotCalculator::iterate / BorderMandelbrotCalculator::iterate:
\* the loop "for (iter = 0; iter < MAX_ITER; ++iter) { if (r2 + i2 >= 4.0) break; ... }"
\* over an orbit with escape set esc.
RECURSIVE IterateFrom(_, _)
IterateFrom(esc, iter) ==
    IF iter < MAX_ITER
    THEN (IF iter \in esc THEN iter ELSE IterateFrom(esc, iter + 1))
    ELSE iter

Iterate(esc) == IterateFrom(esc, 0)

\* The coordinates a kernel gives pixel (x, y): minr + x * stepr, mini + y * stepi.
PixelR(k, x) == RAdd(k.minr, RMul(RInt(x), k.stepr))
PixelI(k, y) == RAdd(k.mini, RMul(RInt(y), k.stepi))
PixelTraj(k, x, y) == TrajAt(PixelR(k, x), PixelI(k, y))

\* --------------------------------------------------------- kernel objects
\* A kernel: the calculator's members (for a GPU kernel, gl: programId and fbo
\* are non-zero; linked: the program linked; complete: the framebuffer is
\* complete), the locals of a running compute() (hasCb: a non-empty
\* progressCallback was passed; processed, flag) and three observations: cbs,
\* the buffer as seen at each progressCallback() call of the current or last
\* compute(); filled, the pixels its forward fill wrote; and fault, set by an
\* out-of-range index or a division by zero.
Pixels(k) == 0 .. k.width * k.height - 1

NewKernel(kind, w, h) ==
    [ZoomBounds(w, h) EXCEPT !.speedMode = FALSE] @@
    [kind |-> kind,
     data |-> [p \in 0 .. w * h - 1 |-> IF kind \in {"gpuf", "gpud"} THEN 0 ELSE MAX_ITER],
     done |-> [p \in 0 .. w * h - 1 |-> 0],
     queue |-> [q \in 0 .. w * h |-> 0],
     queueHead |-> 0, queueTail |-> 0,
     hasCb |-> FALSE, processed |-> 0, flag |-> 0,
     gl |-> FALSE, linked |-> FALSE, complete |-> FALSE, cbs |-> << >>, filled |-> {}, fault |-> FALSE]

\* StorageMandelbrotCalculator::reset
StorageReset(k) == [k EXCEPT !.data = [p \in DOMAIN k.data |-> MAX_ITER]]

\* A reset() of the buffer alone.
BorderResetBufferOnly(k) == StorageReset(k)

\* BorderMandelbrotCalculator::reset
BorderReset(k) ==
    [StorageReset(k) EXCEPT !.done = [p \in DOMAIN k.done |-> 0],
                            !.queueHead = 0, !.queueTail = 0]

\* Entry of compute(progressCallback): fresh locals.
EnterCompute(k, cb) ==
    [k EXCEPT !.hasCb = cb, !.processed = 0, !.flag = 0, !.cbs = << >>, !.filled = {}]

\* Return from compute(): its parameter is gone.
ExitCompute(k) == [k EXCEPT !.hasCb = FALSE]

\* "if (progressCallback) progressCallback();" when fire holds.
FireCallback(k, fire) ==
    IF fire /\ k.hasCb THEN [k EXCEPT !.cbs = Append(@, k.data)] ELSE k

\* ------------------------------------------------------- Standard kernel
\* The inner loop of StandardMandelbrotCalculator::compute: the pixels of row y.
StandardRowFill(k, y) ==
    [k EXCEPT !.data = [p \in DOMAIN k.data |->
                  IF p \div k.width = y
                  THEN Iterate(PixelTraj(k, p % k.width, y))
                  ELSE k.data[p]],
              !.processed = @ + k.width]

\* "if (!speedMode && processed % (width * 10) == 0)" after a row.
StandardRowEnd(k) ==
    IF k.speedMode THEN k
    ELSE IF k.width = 0 THEN [k EXCEPT !.fault = TRUE]
    ELSE FireCallback(k, k.processed % (k.width * STANDARD_PROGRESS_LINES) = 0)

\* One pass of the outer loop of StandardMandelbrotCalculator::compute: row y.
StandardRow(k, y) == StandardRowEnd(StandardRowFill(k, y))

RECURSIVE StandardRows(_, _)
StandardRows(k, y) ==
    IF y < k.height /\ ~k.fault THEN StandardRows(StandardRow(k, y), y + 1) ELSE k

StandardCompute(k, cb) == ExitCompute(StandardRows(EnterCompute(k, cb), 0))

\* ----------------------------------------------------------- SIMD kernel
Min(a, b) == IF a < b THEN a ELSE b

\* A lane of a batch: c is the escape set of the lane's point (cr, ci), z the
\* index of the orbit point held in (zr, zi), iters and mask as in the source.
SimdLaneInit(k, x, y, i, current_batch_size) ==
    LET offset == IF i < current_batch_size THEN i ELSE 0
    IN  [c |-> PixelTraj(k, x + offset, y), z |-> 0, iters |-> 0,
         mask |-> IF i < current_batch_size THEN 1 ELSE 0]

\* The body of the branchless inner loop for one lane.
SimdLaneStep(lane) ==
    LET escaped == lane.z \in lane.c
        mask == IF lane.mask = 1 /\ ~escaped THEN 1 ELSE 0
    IN  [lane EXCEPT !.mask = mask,
                     !.z = IF mask = 1 THEN lane.z + 1 ELSE lane.z,
                     !.iters = lane.iters + mask]

\* A break as soon as one lane is inactive.
SimdBatchDoneAny(lanes) == \E i \in DOMAIN lanes : lanes[i].mask = 0

\* "active_lanes |= mask[i]" over the batch, then "if (active_lanes == 0) break".
SimdBatchDone(lanes) == \A i \in DOMAIN lanes : lanes[i].mask = 0

\* The main iteration loop "for (k = 0; k < MAX_ITER; ++k)": iteration it is
\* SimdIterate (the inner loop over the lanes), its end SimdIterateEnd (the
\* active-lane test and the break).
RECURSIVE SimdIterate(_, _)
RECURSIVE SimdIterateEnd(_, _)
SimdIterate(lanes, it) ==
    IF it < MAX_ITER
    THEN SimdIterateEnd([i \in DOMAIN lanes |-> SimdLaneStep(lanes[i])], it)
    ELSE lanes

SimdIterateEnd(lanes, it) ==
    IF SimdBatchDone(lanes) THEN lanes ELSE SimdIterate(lanes, it + 1)

\* "Store results": iters[i] for i < current_batch_size, and the count.
SimdStore(k, x, y, current_batch_size, lanes) ==
    [k EXCEPT !.data = [p \in DOMAIN k.data |->
                  IF p \div k.width = y /\ p % k.width \in x .. x + current_batch_size - 1
                  THEN lanes[(p % k.width) - x].iters
                  ELSE k.data[p]],
              !.processed = @ + current_batch_size]

SimdLanes(k, x, y, current_batch_size) ==
    [i \in 0 .. BATCH_SIZE - 1 |-> SimdLaneInit(k, x, y, i, current_batch_size)]

\* One batch of row y starting at column x: initialise, iterate, store.
SimdBatch(k, x, y) ==
    SimdStore(k, x, y, Min(BATCH_SIZE, k.width - x),
              SimdIterate(SimdLanes(k, x, y, Min(BATCH_SIZE, k.width - x)), 0))

RECURSIVE SimdBatches(_, _, _)
SimdBatches(k, x, y) ==
    IF x < k.width THEN SimdBatches(SimdBatch(k, x, y), x + BATCH_SIZE, y) ELSE k

\* "if (!speedMode && processed % (width * 10) < BATCH_SIZE)" after a row.
SimdRowEnd(k) ==
    IF k.speedMode THEN k
    ELSE IF k.width = 0 THEN [k EXCEPT !.fault = TRUE]
    ELSE FireCallback(k, k.processed % (k.width * STANDARD_PROGRESS_LINES) < BATCH_SIZE)

\* One pass of the outer loop of SimdMandelbrotCalculator::compute: row y.
SimdRow(k, y) == SimdRowEnd(SimdBatches(k, 0, y))

RECURSIVE SimdRows(_, _)
SimdRows(k, y) ==
    IF y < k.height /\ ~k.fault THEN SimdRows(SimdRow(k, y), y + 1) ELSE k

SimdCompute(k, cb) == ExitCompute(SimdRows(EnterCompute(k, cb), 0))

\* --------------------------------------------------------- Border kernel
HasLoaded(d) == d % 2 = 1
HasQueued(d) == (d \div QUEUED) % 2 = 1

\* The pixels that are LOADED: computed by load().
LoadedSet(k) == {p \in Pixels(k) : HasLoaded(k.done[p])}

\* An addQueue without "if (done[p] & QUEUED) return;".
AddQueueAgain(k, p) ==
    IF p \notin DOMAIN k.done THEN [k EXCEPT !.fault = TRUE]
    ELSE [k EXCEPT !.done[p] = IF HasQueued(@) THEN @ ELSE @ + QUEUED,
                   !.queue[k.queueHead] = p,
                   !.queueHead = IF k.queueHead + 1 = k.width * k.height + 1
                                 THEN 0 ELSE k.queueHead + 1]

\* BorderMandelbrotCalculator::addQueue
AddQueue(k, p) ==
    IF p \notin DOMAIN k.done THEN [k EXCEPT !.fault = TRUE]
    ELSE IF HasQueued(k.done[p]) THEN k
    ELSE [k EXCEPT !.done[p] = @ + QUEUED,
                   !.queue[k.queueHead] = p,
                   !.queueHead = IF k.queueHead + 1 = k.width * k.height + 1
                                 THEN 0 ELSE k.queueHead + 1]

\* A load() that takes the pixel's column for its row and its row for its column.
LoadValueTransposed(k, p) ==
    IF HasLoaded(k.done[p]) THEN k.data[p]
    ELSE Iterate(PixelTraj(k, p \div k.width, p % k.width))

\* BorderMandelbrotCalculator::load: the value returned ...
LoadValue(k, p) ==
    IF HasLoaded(k.done[p]) THEN k.data[p]
    ELSE Iterate(PixelTraj(k, p % k.width, p \div k.width))

\* ... and the kernel it leaves (the value memoized, LOADED set).
Load(k, p) ==
    IF HasLoaded(k.done[p]) THEN k
    ELSE [k EXCEPT !.done[p] = @ + LOADED, !.data[p] = LoadValue(k, p)]

AddQueueIf(k, cond, p) == IF cond THEN AddQueue(k, p) ELSE k

LoadIf(k, cond, p) == IF cond THEN Load(k, p) ELSE k

\* BorderMandelbrotCalculator::scan, first half: "int center = load(p)" and the
\* load() calls of "bool l = ll && load(p - 1) != center" and the three lines
\* after it; && calls load() only for a neighbour inside the tile.
ScanLoad(k, p) ==
    LET x == p % k.width
        y == p \div k.width
        ll == x >= 1
        rr == x < k.width - 1
        uu == y >= 1
        dd == y < k.height - 1
    IN  LoadIf(LoadIf(LoadIf(LoadIf(Load(k, p), ll, p - 1), rr, p + 1),
                      uu, p - k.width), dd, p + k.width)

\* BorderMandelbrotCalculator::scan, second half, on the kernel the loads left:
\* load(q) returned data[q], so l, r, u, d compare the memoized values.
ScanEnqueue(k, p) ==
    LET x == p % k.width
        y == p \div k.width
        center == k.data[p]
        ll == x >= 1
        rr == x < k.width - 1
        uu == y >= 1
        dd == y < k.height - 1
        l == ll /\ k.data[p - 1] # center
        r == rr /\ k.data[p + 1] # center
        u == uu /\ k.data[p - k.width] # center
        d == dd /\ k.data[p + k.width] # center
    IN  AddQueueIf(AddQueueIf(AddQueueIf(AddQueueIf(
        AddQueueIf(AddQueueIf(AddQueueIf(AddQueueIf(k,
            l, p - 1),
            r, p + 1),
            u, p - k.width),
            d, p + k.width),
            (uu /\ ll) /\ (l \/ u), p - k.width - 1),
            (uu /\ rr) /\ (r \/ u), p - k.width + 1),
            (dd /\ ll) /\ (l \/ d), p + k.width - 1),
            (dd /\ rr) /\ (r \/ d), p + k.width + 1)

\* BorderMandelbrotCalculator::scan
Scan(k, p) == ScanEnqueue(ScanLoad(k, p), p)

\* A compute() that leaves the buffer as it finds it.
BorderKeep(k) == k

\* "data.assign(width * height, 0)" at the head of compute().
BorderAssign(k) == [k EXCEPT !.data = [p \in Pixels(k) |-> 0]]

\* The first seeding loop, from row y on: the left and right columns.
RECURSIVE SeedColumns(_, _)
SeedColumns(k, y) ==
    IF y < k.height /\ ~k.fault
    THEN SeedColumns(AddQueue(AddQueue(k, y * k.width + 0), y * k.width + (k.width - 1)),
                     y + 1)
    ELSE k

\* The second seeding loop, from column x on: the top and bottom rows.
RECURSIVE SeedRows(_, _)
SeedRows(k, x) ==
    IF x < k.width - 1 /\ ~k.fault
    THEN SeedRows(AddQueue(AddQueue(k, 0 * k.width + x), (k.height - 1) * k.width + x),
                  x + 1)
    ELSE k

BorderSeed(k) == SeedRows(SeedColumns(k, 0), 1)

\* A test that sends every 2nd dequeue to the head.
DequeueFifoEverySecond(k) == k.queueHead <= k.queueTail \/ (k.flag + 1) % 2 # 0

\* The dequeue of one pass of "while (queueTail != queueHead)":
\* "if (queueHead <= queueTail || ++flag & 3)" takes from the tail, else from the head.
DequeueFifo(k) == k.queueHead <= k.queueTail \/ (k.flag + 1) % 4 # 0

Dequeued(k) ==
    IF DequeueFifo(k) THEN k.queue[k.queueTail]
    ELSE k.queue[(IF k.queueHead = 0 THEN k.width * k.height + 1 ELSE k.queueHead) - 1]

Dequeue(k) ==
    LET flag == IF k.queueHead <= k.queueTail THEN k.flag ELSE k.flag + 1
    IN  IF DequeueFifo(k)
        THEN [k EXCEPT !.flag = flag,
                       !.queueTail = IF k.queueTail + 1 = k.width * k.height + 1
                                     THEN 0 ELSE k.queueTail + 1]
        ELSE [k EXCEPT !.flag = flag,
                       !.queueHead = (IF k.queueHead = 0 THEN k.width * k.height + 1
                                      ELSE k.queueHead) - 1]

\* "++processed; if (!speedMode && processed % 1000 == 0) ..." after a scan.
DrainCount(k) ==
    FireCallback([k EXCEPT !.processed = @ + 1],
                 ~k.speedMode /\ (k.processed + 1) % BORDER_PROGRESS = 0)

\* One pass of the queue loop: dequeue, scan, count, periodic callback.
DrainStep(k) == DrainCount(Scan(Dequeue(k), Dequeued(k)))

RECURSIVE Drain(_)
Drain(k) == IF k.queueTail # k.queueHead /\ ~k.fault THEN Drain(DrainStep(k)) ELSE k

\* A forward fill that copies the value and leaves the flag.
RECURSIVE FillFromNoFlag(_, _)
FillFromNoFlag(k, p) ==
    IF p < k.width * k.height - 1
    THEN FillFromNoFlag(IF HasLoaded(k.done[p]) /\ ~HasLoaded(k.done[p + 1])
                        THEN [k EXCEPT !.data[p + 1] = k.data[p],
                                       !.filled = @ \cup {p + 1}]
                        ELSE k,
                        p + 1)
    ELSE k

\* "Fill uncalculated areas with neighbor color", from pixel p on.
RECURSIVE FillFrom(_, _)
FillFrom(k, p) ==
    IF p < k.width * k.height - 1
    THEN FillFrom(IF HasLoaded(k.done[p]) /\ ~HasLoaded(k.done[p + 1])
                  THEN [k EXCEPT !.data[p + 1] = k.data[p], !.done[p + 1] = @ + LOADED,
                                 !.filled = @ \cup {p + 1}]
                  ELSE k,
                  p + 1)
    ELSE k

\* A compute() without the fill loop.
SkipFill(k) == k

ForwardFill(k) == IF k.fault THEN k ELSE FillFrom(k, 0)

\* The forward fill and the return.
BorderEnd(k) == ExitCompute(ForwardFill(k))

\* BorderMandelbrotCalculator::compute up to the queue loop.
BorderBegin(k, cb) == BorderSeed(BorderAssign(EnterCompute(k, cb)))

\* BorderMandelbrotCalculator::compute
BorderCompute(k, cb) == BorderEnd(Drain(BorderBegin(k, cb)))

\* ------------------------------------------------------------ the inputs
\* The islands of a field of n cells: none, or one cell.
Islands(n) == {{}} \cup {{c} : c \in 0 .. n - 1}

\* The lattice of a w x h view at the default bounds, all cells with escape set
\* bg except the cells of S, which have escape set sp.
PlaneOf(w, h, bg, sp, S) ==
    LET z == ZoomBounds(w, h)
    IN  [width |-> w, height |-> h, minr |-> z.minr, mini |-> z.mini,
         stepr |-> z.stepr, stepi |-> z.stepi,
         cells |-> [c \in 0 .. w * h - 1 |-> IF c \in S THEN sp ELSE bg]]

\* Background and island orbits of the fields given to the kernels: an island
\* that escapes at once inside a region that never escapes, and the reverse.
TrajPairs == {<<{}, {0}>>, <<{1}, {}>>}

\* ------------------------------------------- a standalone kernel's history
\* khist follows the calls made on kern: clean (the buffer and the flags are as
\* constructed or as reset() leaves them), fromClean (the running or last
\* compute() started clean), and the progress through compute(); reset();
\* compute(): stage 1 after a compute(), 2 after the reset() that followed it,
\* 3 after the compute() that followed that; first is the buffer the first of
\* these compute() calls left, firstClean whether it started clean.
HistInit == [clean |-> TRUE, fromClean |-> TRUE, stage |-> 0, first |-> << >>,
             firstClean |-> TRUE, pre |-> << >>, pend |-> << >>, deq |-> << >>,
             prev |-> << >>]

HistBegin(h) == [h EXCEPT !.fromClean = h.clean, !.clean = FALSE, !.pre = << >>]

\* The buffer of kernel k, on which compute() is being entered.
HistEntered(h, k) == [h EXCEPT !.prev = k.data]

\* The ring's slots from index a up to, not including, index b.
RingSlots(k, a, b) == [i \in 1 .. b - a |-> k.queue[a + i - 1]]

\* The pending pixels in the order they were enqueued, after the seeding ...
HistSeeded(h, k) ==
    [h EXCEPT !.pend = RingSlots(k, k.queueTail, k.queueHead), !.deq = << >>]

\* ... and after one pass of the queue loop that took kernel k to k2: the pass
\* took pixel p, from the head if queueHead moved down at the dequeue, and its
\* scan enqueued the pixels now in the slots above.
HistDequeued(h, k, k2) ==
    LET p == Dequeued(k)
        k1 == Dequeue(k)
    IN  [h EXCEPT !.deq = Append(@, [lifo |-> k1.queueHead # k.queueHead,
                                     pixel |-> p,
                                     oldest |-> h.pend[1],
                                     newest |-> h.pend[Len(h.pend)]]),
                  !.pend = SelectSeq(@, LAMBDA x : x # p)
                           \o RingSlots(k2, k1.queueHead, k2.queueHead)]

\* The Border kernel when its queue loop ends: the buffer and the LOADED pixels.
HistDrained(h, k) == [h EXCEPT !.pre = [data |-> k.data, loaded |-> LoadedSet(k)]]

HistEnd(h, data) ==
    IF h.stage = 2 THEN [h EXCEPT !.stage = 3]
    ELSE [h EXCEPT !.stage = 1, !.first = data, !.firstClean = h.fromClean]

HistReset(h, data) ==
    [h EXCEPT !.clean = TRUE,
              !.stage = IF h.stage = 0 THEN 0 ELSE 2,
              !.first = IF h.stage = 3 THEN data ELSE @,
              !.firstClean = IF h.stage = 3 THEN h.fromClean ELSE @]

\* ------------------------------------------------- the standalone kernel
KernelKinds == {"border", "standard", "simd"}

InitKernel ==
    /\ mode = "kernel"
    /\ \E kind \in KernelKinds, w \in 1 .. MaxW, h \in 1 .. MaxH :
         /\ kern = NewKernel(kind, w, h)
         /\ \E pr \in TrajPairs, S \in Islands(w * h) :
              plane = PlaneOf(w, h, pr[1], pr[2], S)
    /\ kpc = "idle"
    /\ khist = HistInit
    /\ grid = << >> /\ gpc = "none" /\ threads = << >> /\ glog = << >>

\* Rows of any width for the SIMD kernel, with arbitrary orbits.
InitSimd ==
    /\ mode = "kernel"
    /\ \E w \in 1 .. MaxSimdWidth :
         /\ kern = NewKernel("simd", w, 1)
         /\ \E bg \in EscapeSets, sp \in EscapeSets, S \in Islands(w) :
              plane = PlaneOf(w, 1, bg, sp, S)
    /\ kpc = "idle"
    /\ khist = HistInit
    /\ grid = << >> /\ gpc = "none" /\ threads = << >> /\ glog = << >>

\* compute() of the Standard or SIMD kernel.
KernelCompute ==
    /\ mode = "kernel" /\ kpc = "idle" /\ kern.kind \in {"standard", "simd"}
    /\ \E cb \in BOOLEAN :
         kern' = IF kern.kind = "standard" THEN StandardCompute(kern, cb)
                 ELSE SimdCompute(kern, cb)
    /\ khist' = HistEnd(HistBegin(khist), kern'.data)
    /\ UNCHANGED <<mode, plane, kpc, gridVars>>

\* compute() of the Border kernel, in three kinds of step: the seeding ...
KernelBorderBegin ==
    /\ mode = "kernel" /\ kpc = "idle" /\ kern.kind = "border"
    /\ \E cb \in BOOLEAN : kern' = BorderBegin(kern, cb)
    /\ kpc' = "drain"
    /\ khist' = HistSeeded(HistEntered(HistBegin(khist), kern), kern')
    /\ UNCHANGED <<mode, plane, gridVars>>

\* ... one pass of the queue loop ...
KernelBorderStep ==
    /\ mode = "kernel" /\ kpc = "drain"
    /\ kern.queueTail # kern.queueHead
    /\ kern' = DrainStep(kern)
    /\ khist' = HistDequeued(khist, kern, kern')
    /\ UNCHANGED <<mode, plane, kpc, gridVars>>

\* ... and, the queue empty, the forward fill and the return.
KernelBorderFill ==
    /\ mode = "kernel" /\ kpc = "drain"
    /\ kern.queueTail = kern.queueHead
    /\ kern' = BorderEnd(kern)
    /\ kpc' = "idle"
    /\ khist' = HistEnd(HistDrained(khist, kern), kern'.data)
    /\ UNCHANGED <<mode, plane, gridVars>>

\* reset() of the kernel.
KernelReset ==
    /\ mode = "kernel" /\ kpc = "idle"
    /\ kern' = IF kern.kind = "border" THEN BorderReset(kern) ELSE StorageReset(kern)
    /\ khist' = HistReset(khist, kern.data)
    /\ UNCHANGED <<mode, plane, kpc, gridVars>>

NextKernel ==
    \/ KernelCompute
    \/ KernelBorderBegin
    \/ KernelBorderStep
    \/ KernelBorderFill
    \/ KernelReset

NextSimd == KernelCompute

SpecKernel == InitKernel /\ [][NextKernel]_vars

SpecSimd == InitSimd /\ [][NextSimd]_vars

\* ------------------------------------------------------ the GPU kernel
\* The fragment shader's loop "for (int k = 0; k < maxIter; ++k)" over an orbit
\* with escape set esc: iter, and whether r2 + i2 >= 4.0 when the loop ends.
RECURSIVE ShaderLoop(_, _)
ShaderLoop(esc, k) ==
    IF k < MAX_ITER
    THEN (IF k \in esc THEN [iter |-> k, escaped |-> TRUE] ELSE ShaderLoop(esc, k + 1))
    ELSE [iter |-> 0, escaped |-> FALSE]

\* "if (iter == 0 && r2 + i2 < 4.0) iter = maxIter;"
ShaderEnd(l) == IF l.iter = 0 /\ ~l.escaped THEN MAX_ITER ELSE l.iter

ShaderIter(esc) == ShaderEnd(ShaderLoop(esc, 0))

\* The two colour channels the shader writes, as the bytes glReadPixels returns.
ShaderEncode(iter) == <<iter % 256, iter \div 256>>

\* "int iter = r + (g * 256); if (iter > MAX_ITER) iter = MAX_ITER;"
GpuDecode(rg) == Min(rg[1] + rg[2] * 256, MAX_ITER)

\* The orbit of the fragment at column x of GL row y (counted from the bottom):
\* the shader samples the pixel's centre, texCoord = ((x + 1/2) / width,
\* (y + 1/2) / height), and maps 1 - texCoord.y onto [minI, maxI].
FragmentTraj(k, x, y) ==
    TrajAt(RAdd(k.minr, RMul(RDiv(RAdd(RInt(x), RHalf), RInt(k.width)),
                             RSub(k.maxr, k.minr))),
           RAdd(k.mini, RMul(RSub(RInt(1), RDiv(RAdd(RInt(y), RHalf), RInt(k.height))),
                             RSub(k.maxi, k.mini))))

\* The bytes the linked program draws, in the order of the buffer: GL row y
\* goes to buffer row height - 1 - y.
GpuFragments(k) ==
    [p \in DOMAIN k.data |->
        ShaderEncode(ShaderIter(
            FragmentTraj(k, p % k.width, k.height - 1 - (p \div k.width))))]

\* The readback of what the linked program drew.
GpuReadback(k) == [p \in DOMAIN k.data |-> GpuDecode(GpuFragments(k)[p])]

\* "std::vector<uint8_t> pixels(width * height * 4); glReadPixels(...)": on an
\* incomplete framebuffer glReadPixels fails and the vector keeps its zeros;
\* on a complete one it returns what the program drew, or, when the program
\* never linked (glUseProgram fails, the draw runs without a program), bytes
\* the code does not determine: undef.
GpuReadPixels(k, undef) ==
    IF ~k.complete THEN [p \in DOMAIN k.data |-> <<0, 0>>]
    ELSE IF k.linked THEN GpuFragments(k)
    ELSE undef

\* GpuMandelbrotCalculator::compute, undef as in GpuReadPixels
GpuComputeWith(k, cb, undef) ==
    IF ~k.gl THEN ExitCompute(EnterCompute(k, cb))
    ELSE ExitCompute(FireCallback(
             [EnterCompute(k, cb) EXCEPT
                 !.data = [p \in DOMAIN k.data |-> GpuDecode(GpuReadPixels(k, undef)[p])]],
             TRUE))

\* GpuMandelbrotCalculator::compute of a kernel whose program linked
GpuCompute(k, cb) == GpuComputeWith(k, cb, GpuFragments(k))

\* GpuMandelbrotCalculator::reset: "Nothing to reset for GPU".
GpuReset(k) == k

\* ---------------------------------------------------------- the scheduler
EngineTypes == {"border", "standard", "simd", "gpuf", "gpud"}
GpuEngines == {"gpuf", "gpud"}

NumTiles(g) == g.gridRows * g.gridCols
TileIds(g) == 0 .. NumTiles(g) - 1

\* A geometry that gives every tile the same floor(width / cols) x floor(height / rows).
TileGeometryEven(g, tileIdx) ==
    LET row == tileIdx \div g.gridCols
        col == tileIdx % g.gridCols
        startX == col * (g.width \div g.gridCols)
        startY == row * (g.height \div g.gridRows)
        endX == (col + 1) * (g.width \div g.gridCols)
        endY == (row + 1) * (g.height \div g.gridRows)
    IN  [startX |-> startX, startY |-> startY,
         width |-> endX - startX, height |-> endY - startY,
         minR |-> RAdd(g.minr, RMul(RInt(startX), g.stepr)),
         minI |-> RAdd(g.mini, RMul(RInt(startY), g.stepi)),
         maxR |-> RAdd(g.minr, RMul(RInt(endX), g.stepr)),
         maxI |-> RAdd(g.mini, RMul(RInt(endY), g.stepi))]

\* The body of calculateTileGeometry's loops for tile tileIdx.
TileGeometry(g, tileIdx) ==
    LET row == tileIdx \div g.gridCols
        col == tileIdx % g.gridCols
        startX == (col * g.width) \div g.gridCols
        startY == (row * g.height) \div g.gridRows
        endX == ((col + 1) * g.width) \div g.gridCols
        endY == ((row + 1) * g.height) \div g.gridRows
    IN  [startX |-> startX, startY |-> startY,
         width |-> endX - startX, height |-> endY - startY,
         minR |-> RAdd(g.minr, RMul(RInt(startX), g.stepr)),
         minI |-> RAdd(g.mini, RMul(RInt(startY), g.stepi)),
         maxR |-> RAdd(g.minr, RMul(RInt(endX), g.stepr)),
         maxI |-> RAdd(g.mini, RMul(RInt(endY), g.stepi))]

\* GridMandelbrotCalculator::calculateTileGeometry
CalculateTileGeometry(g) ==
    [g EXCEPT !.tileInfos = [tileIdx \in TileIds(g) |-> TileGeometry(g, tileIdx)]]

\* A pass of that loop without "calculator->setSpeedMode(speedMode)".
CreateTileDefaultSpeed(g, tile, gl) ==
    [UpdateBoundsExplicit(NewKernel(g.engineType, tile.width, tile.height),
                          tile.minR, tile.minI, tile.maxR, tile.maxI)
        EXCEPT !.gl = gl /\ g.engineType \in GpuEngines,
               !.linked = gl /\ g.engineType \in GpuEngines,
               !.complete = gl /\ g.engineType \in GpuEngines]

\* One pass of the loop that (re)creates the tile calculators: the kernel of the
\* selected engine, with the tile's explicit bounds and the scheduler's speed
\* mode. gl: the GPU kernel's constructor found a context and built its program.
CreateTile(g, tile, gl) ==
    [UpdateBoundsExplicit(NewKernel(g.engineType, tile.width, tile.height),
                          tile.minR, tile.minI, tile.maxR, tile.maxI)
        EXCEPT !.speedMode = g.speedMode,
               !.gl = gl /\ g.engineType \in GpuEngines,
               !.linked = gl /\ g.engineType \in GpuEngines,
               !.complete = gl /\ g.engineType \in GpuEngines]

CreateTiles(g, gl) ==
    [g EXCEPT !.tiles = [i \in TileIds(g) |-> CreateTile(g, g.tileInfos[i], gl)]]

\* GridMandelbrotCalculator::updateBounds
GridUpdateBounds(g, new_cre, new_cim, new_diam, gl) ==
    CreateTiles(CalculateTileGeometry(UpdateBounds(g, new_cre, new_cim, new_diam)), gl)

\* GridMandelbrotCalculator::updateBoundsExplicit
GridUpdateBoundsExplicit(g, new_minr, new_mini, new_maxr, new_maxi, gl) ==
    CreateTiles(CalculateTileGeometry(
        UpdateBoundsExplicit(g, new_minr, new_mini, new_maxr, new_maxi)), gl)

\* GridMandelbrotCalculator::setEngineType
GridSetEngineType(g, type, gl) ==
    IF g.engineType # type
    THEN GridUpdateBounds([g EXCEPT !.engineType = type], g.cre, g.cim, g.diam, gl)
    ELSE g

\* GridMandelbrotCalculator::GridMandelbrotCalculator
NewGrid(w, h, rows, cols) ==
    GridUpdateBounds(
        ZoomBounds(w, h) @@
        [data |-> [p \in 0 .. w * h - 1 |-> MAX_ITER],
         gridRows |-> rows, gridCols |-> cols, engineType |-> "border",
         tileInfos |-> << >>, tiles |-> << >>],
        DefaultCre, DefaultCim, DefaultDiam, FALSE)

\* The thread that calls the scheduler; its workers are numbered from 1.
MainThread == 0

\* The virtual compute() and reset() of a tile's kernel.
TileCompute(k, cb) ==
    CASE k.kind = "border" -> BorderCompute(k, cb)
      [] k.kind = "standard" -> StandardCompute(k, cb)
      [] k.kind = "simd" -> SimdCompute(k, cb)
      [] OTHER -> GpuCompute(k, cb)

TileReset(k) ==
    CASE k.kind = "border" -> BorderReset(k)
      [] k.kind \in {"standard", "simd"} -> StorageReset(k)
      [] OTHER -> GpuReset(k)

\* GridMandelbrotCalculator::reset
GridReset(g) ==
    [StorageReset(g) EXCEPT !.tiles = [i \in TileIds(g) |-> TileReset(g.tiles[i])]]

\* GridMandelbrotCalculator::setSpeedMode
GridSetSpeedMode(g, m) ==
    [g EXCEPT !.speedMode = m,
              !.tiles = [i \in TileIds(g) |-> [g.tiles[i] EXCEPT !.speedMode = m]]]

\* A copy of one tile to the top-left corner of the unified buffer:
\* data[y * width + x] = tileData[y * tile.width + x].
CompositeTileNoOffset(g, tileIdx) ==
    LET tile == g.tileInfos[tileIdx]
    IN  [g EXCEPT !.data =
            [p \in DOMAIN g.data |->
                IF p \div g.width < tile.height /\ p % g.width < tile.width
                THEN g.tiles[tileIdx].data[(p \div g.width) * tile.width + (p % g.width)]
                ELSE g.data[p]]]

\* The copy loops over one tile: rows y < tile.height, columns x < tile.width,
\* data[(tile.startY + y) * width + tile.startX + x] = tileData[y * tile.width + x].
CompositeTile(g, tileIdx) ==
    LET tile == g.tileInfos[tileIdx]
    IN  [g EXCEPT !.data =
            [p \in DOMAIN g.data |->
                IF \E y \in 0 .. tile.height - 1, x \in 0 .. tile.width - 1 :
                       p = (tile.startY + y) * g.width + tile.startX + x
                THEN LET q == CHOOSE q \in 0 .. tile.width * tile.height - 1 :
                                 p = (tile.startY + (q \div tile.width)) * g.width
                                         + tile.startX + (q % tile.width)
                     IN  g.tiles[tileIdx].data[q]
                ELSE g.data[p]]]

\* The pass over all tiles, from tile tileIdx on.
RECURSIVE CompositeFrom(_, _)
CompositeFrom(g, tileIdx) ==
    IF tileIdx < NumTiles(g) THEN CompositeFrom(CompositeTile(g, tileIdx), tileIdx + 1)
    ELSE g

\* The log of a scheduler on which compute() is not running and was not the
\* last call: computedBy, the threads that called each tile's compute();
\* started and joined, the worker threads started and joined; writes, the
\* accesses to the unified buffer (by which thread, in which phase); composites,
\* the passes over all tiles; tileComposites, the single-tile composites;
\* callbacks, the calls of the caller's progressCallback; hasCb, the caller
\* passed a non-empty one; finalSignals, the calls of it made for a tile after
\* the tile's compute() returned, with the tile's buffer in the unified buffer;
\* fault, a division by zero; returned, compute() has returned and nothing was
\* called since; rect, the arguments of updateBoundsExplicit if that was the
\* last call.
GlogInit(g) ==
    [computedBy |-> [i \in TileIds(g) |-> {}],
     started |-> 0, joined |-> 0, writes |-> {},
     composites |-> 0, tileComposites |-> [i \in TileIds(g) |-> 0],
     callbacks |-> 0, hasCb |-> FALSE, finalSignals |-> [i \in TileIds(g) |-> 0],
     parallel |-> FALSE, fault |-> FALSE, returned |-> FALSE, rect |-> << >>,
     computes |-> [i \in TileIds(g) |-> 0], workers |-> 0, ranges |-> << >>,
     order |-> << >>, touched |-> {}, stray |-> FALSE, later |-> FALSE,
     rebuilt |-> FALSE,
     hist |-> HistInit]

\* The log after reset() or on entering compute(): a division by zero stays on
\* record through compute(); reset(); compute().
LogReset(l, g) == [GlogInit(g) EXCEPT !.fault = l.fault]

\* Entry of the scheduler's compute(): the log of a fresh call.
LogEnter(l, g) == [LogReset(l, g) EXCEPT !.hist = HistBegin(l.hist)]

\* A branch taken on speed mode alone.
ParallelModeAnyEngine(g) == g.speedMode

\* "speedMode && engineType != GPUF && engineType != GPUD"
ParallelMode(g) == g.speedMode /\ g.engineType \notin GpuEngines

\* A thread called compute() on tile tileIdx, whose kernel came back as k having
\* called the callback it was given Len(k.cbs) times. In the sequential branch
\* that callback is the lambda that composites the tile and forwards to the
\* caller's progressCallback, if there is one (cb).
LogTileCompute(l, tileIdx, by, phase, k, cb) ==
    [l EXCEPT !.computedBy[tileIdx] = @ \cup {by},
              !.computes[tileIdx] = @ + 1,
              !.tileComposites[tileIdx] = @ + Len(k.cbs),
              !.callbacks = @ + (IF cb THEN Len(k.cbs) ELSE 0),
              !.writes = @ \cup (IF Len(k.cbs) > 0
                                 THEN {[by |-> by, phase |-> phase]} ELSE {})]

\* "After tile completes, composite its final state and render once more".
LogTileFinal(l, tileIdx, cb) ==
    [l EXCEPT !.tileComposites[tileIdx] = @ + 1,
              !.callbacks = @ + (IF cb THEN 1 ELSE 0),
              !.writes = @ \cup {[by |-> MainThread, phase |-> "sequential"]}]

\* The unified buffer holds tile tileIdx's buffer at the tile's place.
TileRegionCopied(g, tileIdx) ==
    \A y \in 0 .. g.tileInfos[tileIdx].height - 1, x \in 0 .. g.tileInfos[tileIdx].width - 1 :
        g.data[(g.tileInfos[tileIdx].startY + y) * g.width + g.tileInfos[tileIdx].startX + x]
            = g.tiles[tileIdx].data[y * g.tileInfos[tileIdx].width + x]

\* "Render the final tile state": the call of progressCallback that follows the
\* tile's last composite, on the scheduler g as it is then.
SequentialSignal(g, l, tileIdx, cb) ==
    [g |-> g,
     l |-> [l EXCEPT !.finalSignals[tileIdx] =
                @ + (IF cb /\ TileRegionCopied(g, tileIdx) THEN 1 ELSE 0)]]

\* The pixels of the unified buffer inside tile tileIdx's rectangle.
TileRect(g, tileIdx) ==
    LET tile == g.tileInfos[tileIdx]
    IN  {p \in DOMAIN g.data :
            /\ p % g.width \in tile.startX .. tile.startX + tile.width - 1
            /\ p \div g.width \in tile.startY .. tile.startY + tile.height - 1}

\* Copy loops that take the tile's own offsets for the unified buffer's:
\* dstOffset = y * width.
CompositeWritesNoOffset(g, tileIdx) ==
    {y * g.width + x : y \in 0 .. g.tileInfos[tileIdx].height - 1,
                       x \in 0 .. g.tileInfos[tileIdx].width - 1}

\* The elements of the unified buffer the copy loops over tile tileIdx assign:
\* "dstOffset = (tile.startY + y) * width + tile.startX; data[dstOffset + x] = ...".
CompositeWrites(g, tileIdx) ==
    {(g.tileInfos[tileIdx].startY + y) * g.width + g.tileInfos[tileIdx].startX + x :
        y \in 0 .. g.tileInfos[tileIdx].height - 1,
        x \in 0 .. g.tileInfos[tileIdx].width - 1}

\* The record of one pass of the sequential loop: the tile's compute() (whose
\* callback composites the tile and signals), then the final composite and
\* signal. touched: what this compute() has written of the unified buffer;
\* stray: a copy wrote outside the current tile's rectangle; later: at a signal,
\* the rectangle of a tile still to come had been written.
LogSequentialTile(l, g, tileIdx, touched) ==
    [l EXCEPT !.order = @ \o <<[ev |-> "compute", tile |-> tileIdx],
                               [ev |-> "final", tile |-> tileIdx]>>,
              !.touched = touched,
              !.stray = @ \/ ~(CompositeWrites(g, tileIdx) \subseteq TileRect(g, tileIdx)),
              !.later = @ \/ \E j \in TileIds(g) :
                                j > tileIdx /\ touched \cap TileRect(g, j) # {}]

\* A pass of the sequential loop that ends when the tile's compute() returns.
SequentialTileDoneNoFinal(st, tileIdx, cb, k) ==
    [g |-> [st.g EXCEPT !.tiles[tileIdx] = k],
     l |-> LogTileCompute(st.l, tileIdx, MainThread, "sequential", k, cb)]

\* One pass of the sequential loop, the tile's compute() having returned k.
SequentialTileDone(st, tileIdx, cb, k) ==
    SequentialSignal(
        CompositeTile([st.g EXCEPT !.tiles[tileIdx] = k], tileIdx),
        LogSequentialTile(
            LogTileFinal(LogTileCompute(st.l, tileIdx, MainThread, "sequential", k, cb),
                         tileIdx, cb),
            st.g, tileIdx, st.l.touched \cup CompositeWrites(st.g, tileIdx)),
        tileIdx, cb)

\* The sequential loop from tile tileIdx on. The tile is always given a callback.
RECURSIVE SequentialTiles(_, _, _)
SequentialTiles(st, tileIdx, cb) ==
    IF tileIdx < NumTiles(st.g)
    THEN SequentialTiles(
             SequentialTileDone(st, tileIdx, cb, TileCompute(st.g.tiles[tileIdx], TRUE)),
             tileIdx + 1, cb)
    ELSE st

\* A worker's pass over tile tileIdx, the tile's compute() having returned k
\* after calling the callback it was given Len(k.cbs) times.
WorkerTileDone(st, tileIdx, w, k) ==
    [g |-> [st.g EXCEPT !.tiles[tileIdx] = k],
     l |-> LogTileCompute(st.l, tileIdx, w, "parallel", k, FALSE)]

\* A return without the composite at the end.
ComputeEndNoComposite(st) ==
    [g |-> st.g, l |-> [st.l EXCEPT !.returned = TRUE, !.hist = HistEnd(@, st.g.data)]]

\* "In speed mode, composite all tiles once at the end", and the return.
ComputeEnd(st) ==
    IF st.g.speedMode
    THEN [g |-> CompositeFrom(st.g, 0),
          l |-> [st.l EXCEPT !.composites = @ + 1,
                             !.writes = @ \cup {[by |-> MainThread, phase |-> "end"]},
                             !.returned = TRUE,
                             !.hist = HistEnd(@, CompositeFrom(st.g, 0).data)]]
    ELSE [g |-> st.g,
          l |-> [st.l EXCEPT !.returned = TRUE, !.hist = HistEnd(@, st.g.data)]]

\* A share of floor(numTiles / numThreads) tiles.
TilesPerThreadFloor(numTiles, hc) == IF hc = 0 THEN 0 ELSE numTiles \div hc

\* hardware_concurrency() returned hc: "(numTiles + numThreads - 1) / numThreads"
\* in unsigned arithmetic, meaningless for hc = 0.
TilesPerThread(numTiles, hc) == IF hc = 0 THEN 0 ELSE (numTiles + hc - 1) \div hc

\* The range of tiles of thread t: [startIdx, min(startIdx + tilesPerThread, numTiles)).
ThreadStart(t, tilesPerThread) == t * tilesPerThread
ThreadEndOverlap(t, tilesPerThread, numTiles) ==
    Min(ThreadStart(t, tilesPerThread) + tilesPerThread + 1, numTiles)
ThreadEnd(t, tilesPerThread, numTiles) ==
    Min(ThreadStart(t, tilesPerThread) + tilesPerThread, numTiles)

\* The callback a worker gives the tiles: nullptr.
WorkerCallback == FALSE

\* ------------------------------------------------------------ the tiling
MaxViewW == 4
MaxViewH == 4
MaxGridRows == 3
MaxGridCols == 3

\* A whole plane that never escapes.
FlatPlane(w, h) == PlaneOf(w, h, {}, {}, {})

\* Centre and diameter given to updateBounds, rectangle given to updateBoundsExplicit.
CentreInputs == {<<RInt(0), RInt(0), RInt(1)>>}
RectInputs == {<<RInt(-2), RInt(-1), RInt(0), RInt(1)>>,
               <<RInt(0), RInt(0), RInt(1), RInt(3)>>}

InitTiling ==
    /\ mode = "grid"
    /\ \E w \in 1 .. MaxViewW, h \in 1 .. MaxViewH,
          rows \in 1 .. MaxGridRows, cols \in 1 .. MaxGridCols :
         /\ grid = NewGrid(w, h, rows, cols)
         /\ plane = FlatPlane(w, h)
    /\ gpc = "idle" /\ threads = << >> /\ glog = GlogInit(grid)
    /\ kern = << >> /\ kpc = "none" /\ khist = << >>

\* updateBounds(cre, cim, diam) on the scheduler.
SchedUpdateBounds ==
    /\ mode = "grid" /\ gpc = "idle"
    /\ \E c \in CentreInputs, gl \in BOOLEAN :
         /\ gl => grid.engineType \in GpuEngines
         /\ grid' = GridUpdateBounds(grid, c[1], c[2], c[3], gl)
    /\ glog' = [GlogInit(grid') EXCEPT !.rebuilt = TRUE]
    /\ UNCHANGED <<mode, plane, gpc, threads, kernVars>>

\* updateBoundsExplicit(minr, mini, maxr, maxi) on the scheduler.
SchedUpdateBoundsExplicit ==
    /\ mode = "grid" /\ gpc = "idle"
    /\ \E r \in RectInputs, gl \in BOOLEAN :
         /\ gl => grid.engineType \in GpuEngines
         /\ grid' = GridUpdateBoundsExplicit(grid, r[1], r[2], r[3], r[4], gl)
         /\ glog' = [GlogInit(grid') EXCEPT !.rect = r, !.rebuilt = TRUE]
    /\ UNCHANGED <<mode, plane, gpc, threads, kernVars>>

\* setEngineType(type) on the scheduler.
SchedSetEngineType ==
    /\ mode = "grid" /\ gpc = "idle"
    /\ \E type \in EngineTypes, gl \in BOOLEAN :
         /\ gl => type \in GpuEngines /\ type # grid.engineType
         /\ grid' = GridSetEngineType(grid, type, gl)
         /\ glog' = IF type = grid.engineType
                    THEN [GlogInit(grid) EXCEPT !.hist.clean = glog.hist.clean]
                    ELSE [GlogInit(grid') EXCEPT !.rebuilt = TRUE]
    /\ UNCHANGED <<mode, plane, gpc, threads, kernVars>>

NextTiling ==
    \/ SchedUpdateBounds
    \/ SchedUpdateBoundsExplicit
    \/ SchedSetEngineType

SpecTiling == InitTiling /\ [][NextTiling]_vars

\* ------------------------------------------------- the scheduler's calls
MaxSchedW == 3
MaxSchedH == 2
MaxSchedRows == 2
MaxSchedCols == 2
MaxHC == 2

InitGrid ==
    /\ mode = "grid"
    /\ \E w \in 1 .. MaxSchedW, h \in 1 .. MaxSchedH,
          rows \in 1 .. MaxSchedRows, cols \in 1 .. MaxSchedCols :
         /\ grid = NewGrid(w, h, rows, cols)
         /\ plane = PlaneOf(w, h, {}, {0}, {0})
    /\ gpc = "idle" /\ threads = << >> /\ glog = GlogInit(grid)
    /\ kern = << >> /\ kpc = "none" /\ khist = << >>

\* reset() on the scheduler.
SchedReset ==
    /\ mode = "grid" /\ gpc = "idle"
    /\ grid' = GridReset(grid)
    /\ glog' = [LogReset(glog, grid) EXCEPT !.hist = HistReset(glog.hist, grid.data)]
    /\ UNCHANGED <<mode, plane, gpc, threads, kernVars>>

\* setSpeedMode(m) on the scheduler.
SchedSetSpeedMode ==
    /\ mode = "grid" /\ gpc = "idle"
    /\ \E m \in BOOLEAN : grid' = GridSetSpeedMode(grid, m)
    /\ glog' = [GlogInit(grid) EXCEPT !.hist.clean = glog.hist.clean]
    /\ UNCHANGED <<mode, plane, gpc, threads, kernVars>>

\* compute(progressCallback) on the scheduler, sequential branch.
SchedComputeSequential ==
    /\ mode = "grid" /\ gpc = "idle" /\ ~ParallelMode(grid)
    /\ \E cb \in BOOLEAN :
         LET st == ComputeEnd(SequentialTiles(
                       [g |-> grid, l |-> [LogEnter(glog, grid) EXCEPT !.hasCb = cb]], 0, cb))
         IN  grid' = st.g /\ glog' = st.l
    /\ UNCHANGED <<mode, plane, gpc, threads, kernVars>>

\* compute(progressCallback), parallel branch, up to the thread-creating loop.
\* The division by hardware_concurrency() = 0 kills the process or yields some
\* tilesPerThread; the loop then creates no thread.
ComputeParallelWith(hc, cb) ==
    /\ mode = "grid" /\ gpc = "idle" /\ ParallelMode(grid)
    /\ threads' = [numThreads |-> hc,
                   tilesPerThread |-> TilesPerThread(NumTiles(grid), hc),
                   t |-> 0, pool |-> << >>, joinIdx |-> 1]
    /\ glog' = [LogEnter(glog, grid) EXCEPT !.parallel = TRUE, !.hasCb = cb,
                                             !.workers = hc,
                                             !.fault = @ \/ hc = 0]
    /\ gpc' \in (IF hc = 0 THEN {"crashed", "join"} ELSE {"spawn"})
    /\ UNCHANGED <<mode, plane, grid, kernVars>>

SchedComputeParallel == \E hc \in 0 .. MaxHC, cb \in BOOLEAN : ComputeParallelWith(hc, cb)

\* One pass of "for (unsigned int t = 0; t < numThreads; ++t)".
SchedSpawn ==
    /\ mode = "grid" /\ gpc = "spawn"
    /\ LET startIdx == ThreadStart(threads.t, threads.tilesPerThread)
           endIdx == ThreadEnd(threads.t, threads.tilesPerThread, NumTiles(grid))
           started == startIdx < NumTiles(grid)
       IN  /\ threads' = [threads EXCEPT
                  !.t = @ + 1,
                  !.pool = IF started
                           THEN Append(@, [startIdx |-> startIdx, endIdx |-> endIdx,
                                           tileIdx |-> startIdx])
                           ELSE @]
           /\ glog' = [glog EXCEPT
                  !.started = @ + (IF started THEN 1 ELSE 0),
                  !.ranges = IF started
                             THEN Append(@, [startIdx |-> startIdx, endIdx |-> endIdx])
                             ELSE @]
    /\ gpc' = IF threads.t + 1 < threads.numThreads THEN "spawn" ELSE "join"
    /\ UNCHANGED <<mode, plane, grid, kernVars>>

\* A worker thread runs one pass of processTiles' loop: tiles[tileIdx]->compute(nullptr).
WorkerStep ==
    /\ mode = "grid" /\ gpc \in {"spawn", "join"}
    /\ \E w \in DOMAIN threads.pool :
         /\ threads.pool[w].tileIdx < threads.pool[w].endIdx
         /\ LET tileIdx == threads.pool[w].tileIdx
                st == WorkerTileDone([g |-> grid, l |-> glog], tileIdx, w,
                                       TileCompute(grid.tiles[tileIdx], WorkerCallback))
            IN  grid' = st.g /\ glog' = st.l
         /\ threads' = [threads EXCEPT !.pool[w].tileIdx = @ + 1]
    /\ UNCHANGED <<mode, plane, gpc, kernVars>>

\* "thread.join()" on the next thread, which has finished.
SchedJoin ==
    /\ mode = "grid" /\ gpc = "join"
    /\ threads.joinIdx \in DOMAIN threads.pool
    /\ threads.pool[threads.joinIdx].tileIdx = threads.pool[threads.joinIdx].endIdx
    /\ threads' = [threads EXCEPT !.joinIdx = @ + 1]
    /\ glog' = [glog EXCEPT !.joined = @ + 1]
    /\ UNCHANGED <<mode, plane, gpc, grid, kernVars>>

\* All threads joined: the composite at the end, and the return.
SchedComputeEnd ==
    /\ mode = "grid" /\ gpc = "join"
    /\ threads.joinIdx > Len(threads.pool)
    /\ LET st == ComputeEnd([g |-> grid, l |-> glog])
       IN  grid' = st.g /\ glog' = st.l
    /\ gpc' = "idle" /\ threads' = << >>
    /\ UNCHANGED <<mode, plane, kernVars>>

NextGrid ==
    \/ SchedSetEngineType
    \/ SchedSetSpeedMode
    \/ SchedReset
    \/ SchedComputeSequential
    \/ SchedComputeParallel
    \/ SchedSpawn
    \/ WorkerStep
    \/ SchedJoin
    \/ SchedComputeEnd

SpecGrid == InitGrid /\ [][NextGrid]_vars

\* The kernels and the scheduler.
Init == InitKernel \/ InitGrid
Next == NextKernel \/ NextGrid
Spec == Init /\ [][Next]_vars

\* ------------------------------------------------------------- properties
\* compute() has returned on the standalone kernel and nothing was called since;
\* it started on a kernel as constructed or as reset() leaves it.
KernelComputed == mode = "kernel" /\ kpc = "idle" /\ ~khist.clean /\ khist.fromClean

\* The buffer the Standard kernel computes for the pixel size and bounds of k.
StandardBuffer(k) == StandardCompute([k EXCEPT !.kind = "standard"], FALSE).data

\* C1 as stated: after compute() the Border kernel's buffer equals the Standard
\* kernel's buffer for the same size and bounds at every pixel, the forward-filled
\* pixels included.
C1_BorderEqualsStandard ==
    (KernelComputed /\ kern.kind = "border") => kern.data = StandardBuffer(kern)

\* C1 amended: after compute() the Border kernel's buffer equals the Standard
\* kernel's buffer at every pixel the tracing computed; a forward-filled pixel
\* holds the value of the pixel before it in row-major order.
C1_BorderEqualsStandardWhereTraced ==
    (KernelComputed /\ kern.kind = "border") =>
        /\ \A p \in Pixels(kern) \ kern.filled : kern.data[p] = StandardBuffer(kern)[p]
        /\ \A p \in kern.filled : kern.data[p] = kern.data[p - 1]

\* A Border compute() that traced some pixels off the tile's edge and filled others.
C1_Witness ==
    /\ KernelComputed /\ kern.kind = "border"
    /\ kern.filled # {}
    /\ \E p \in Pixels(kern) \ kern.filled :
         /\ p % kern.width \in 1 .. kern.width - 2
         /\ p \div kern.width \in 1 .. kern.height - 2

\* C2: the SIMD kernel stores for every pixel of a row of any width the count
\* StandardMandelbrotCalculator::iterate returns for the pixel's orbit: the first
\* index at which it has escaped, or MAX_ITER.
C2_SimdMatchesIterate ==
    (KernelComputed /\ kern.kind = "simd") =>
        \A p \in Pixels(kern) :
            kern.data[p] = Iterate(PixelTraj(kern, p % kern.width, p \div kern.width))

\* A row whose last batch is partial, in which one lane escaped at once and
\* another never escaped.
C2_Witness ==
    /\ KernelComputed /\ kern.kind = "simd"
    /\ kern.width > BATCH_SIZE /\ kern.width % BATCH_SIZE # 0
    /\ \E p, q \in Pixels(kern) : kern.data[p] = 0 /\ kern.data[q] = MAX_ITER

\* C4: after the Border kernel's compute() returns every pixel has its LOADED bit.
C4_AllLoaded ==
    (mode = "kernel" /\ kern.kind = "border" /\ kpc = "idle" /\ ~khist.clean) =>
        \A p \in Pixels(kern) : HasLoaded(kern.done[p])

\* A Border compute() that returned with pixels only its forward fill reached.
C4_Witness ==
    /\ mode = "kernel" /\ kern.kind = "border" /\ kpc = "idle" /\ ~khist.clean
    /\ kern.filled # {}
    /\ \A p \in kern.filled : HasLoaded(kern.done[p])

\* The tiles whose rectangle holds pixel (x, y) of the viewport.
TilesHolding(g, x, y) ==
    {i \in TileIds(g) :
        /\ x \in g.tileInfos[i].startX .. g.tileInfos[i].startX + g.tileInfos[i].width - 1
        /\ y \in g.tileInfos[i].startY .. g.tileInfos[i].startY + g.tileInfos[i].height - 1}

\* C3: for every viewport and every grid the tile rectangles partition the pixel
\* rectangle: they lie inside it and every pixel lies in exactly one tile.
C3_TilesPartition ==
    mode = "grid" =>
        /\ \A i \in TileIds(grid) :
             /\ grid.tileInfos[i].startX >= 0 /\ grid.tileInfos[i].width >= 0
             /\ grid.tileInfos[i].startY >= 0 /\ grid.tileInfos[i].height >= 0
             /\ grid.tileInfos[i].startX + grid.tileInfos[i].width <= grid.width
             /\ grid.tileInfos[i].startY + grid.tileInfos[i].height <= grid.height
        /\ \A x \in 0 .. grid.width - 1, y \in 0 .. grid.height - 1 :
             Cardinality(TilesHolding(grid, x, y)) = 1

\* A grid that does not divide the viewport evenly, its bounds changed since
\* construction, with tiles of unequal widths and an empty tile.
C3_Witness ==
    /\ mode = "grid"
    /\ grid.width % grid.gridCols # 0 /\ grid.height % grid.gridRows # 0
    /\ grid.cre # DefaultCre
    /\ \E i, j \in TileIds(grid) :
         /\ grid.tileInfos[i].width > grid.tileInfos[j].width
         /\ grid.tileInfos[j].width > 0
    /\ \E i \in TileIds(grid) : grid.tileInfos[i].height = 0

\* No kernel of the scheduler and no scheduler call ran into undefined behaviour.
NoFault == ~glog.fault /\ \A i \in TileIds(grid) : ~grid.tiles[i].fault

BoundsOf(k) == <<k.cre, k.cim, k.diam, k.minr, k.mini, k.maxr, k.maxi, k.stepr, k.stepi>>

\* C6 as stated: reset() on the scheduler sets every entry of the unified buffer
\* and of every tile kernel's buffer to MAX_ITER, for every engine, and leaves
\* the bounds of the scheduler and of its tiles unchanged.
C6_ResetSetsMaxIter ==
    [][SchedReset =>
        /\ \A p \in DOMAIN grid'.data : grid'.data[p] = MAX_ITER
        /\ \A i \in TileIds(grid') :
             /\ \A p \in DOMAIN grid'.tiles[i].data : grid'.tiles[i].data[p] = MAX_ITER
             /\ BoundsOf(grid'.tiles[i]) = BoundsOf(grid.tiles[i])
        /\ BoundsOf(grid') = BoundsOf(grid)]_vars

\* C7: in parallel mode no tile is computed by more than one worker thread and
\* none by the calling thread, the unified buffer is not accessed while workers
\* are being started, run or are joined, and every access to it is made by the
\* calling thread after the join.
C7_NoSharedAccess ==
    (mode = "grid" /\ glog.parallel) =>
        /\ \A i \in TileIds(grid) :
             Cardinality(glog.computedBy[i]) <= 1 /\ MainThread \notin glog.computedBy[i]
        /\ gpc \in {"spawn", "join"} => glog.writes = {}
        /\ \A a \in glog.writes :
             a.by = MainThread /\ a.phase = "end" /\ glog.joined = glog.started

\* A parallel compute() in which two workers ran, one of them through two tiles,
\* the second started before the first had finished.
C7_Witness ==
    /\ mode = "grid" /\ glog.parallel /\ gpc = "join"
    /\ Len(threads.pool) = 2
    /\ threads.pool[1].tileIdx = threads.pool[1].startIdx + 1
    /\ threads.pool[1].endIdx = threads.pool[1].startIdx + 2
    /\ threads.pool[2].tileIdx = threads.pool[2].endIdx

\* C8: with a GPU engine selected the scheduler starts no worker thread, and a
\* compute() that returned has called every tile's compute() on the calling
\* thread, speed mode on or off.
C8_GpuOnCallingThread ==
    (mode = "grid" /\ grid.engineType \in GpuEngines) =>
        /\ gpc = "idle" /\ threads = << >> /\ glog.started = 0 /\ ~glog.parallel
        /\ glog.returned => \A i \in TileIds(grid) : glog.computedBy[i] = {MainThread}

\* A compute() that returned on a grid of several GPU tiles in speed mode.
C8_Witness ==
    /\ mode = "grid" /\ grid.engineType \in GpuEngines /\ grid.speedMode
    /\ glog.returned /\ NumTiles(grid) > 1
    /\ \E i \in TileIds(grid) : grid.tiles[i].gl

\* C9 as stated: with a GPU engine selected the scheduler holds exactly one GPU
\* kernel, covering the whole viewport, whatever rows x cols it was built with.
C9_GpuSingleTile ==
    (mode = "grid" /\ grid.engineType \in GpuEngines) =>
        /\ DOMAIN grid.tiles = {0}
        /\ grid.tiles[0].width = grid.width /\ grid.tiles[0].height = grid.height

\* C10: in parallel mode the caller's progress callback is never called and no
\* tile is composited on its own; no composite pass is made before every worker
\* is joined, and a compute() that returned has made exactly one.
C10_ParallelOneComposite ==
    (mode = "grid" /\ glog.parallel) =>
        /\ glog.callbacks = 0
        /\ \A i \in TileIds(grid) : glog.tileComposites[i] = 0
        /\ glog.composites > 0 => glog.joined = glog.started
        /\ gpc # "idle" => glog.composites = 0
        /\ glog.returned => glog.composites = 1

\* A parallel compute() that returned after joining two workers, the caller
\* having passed a callback or not.
C10_Witness ==
    /\ mode = "grid" /\ glog.parallel /\ glog.returned
    /\ glog.started = 2 /\ glog.joined = 2 /\ glog.composites = 1

\* C11: a sequential compute() that was given a callback has, when it returns,
\* called it for every tile at least once after the tile's compute() returned
\* and with the tile's final buffer in the unified buffer, hence at least
\* rows * cols times, whether or not the tile's kernel called back on its own.
C11_EveryTileSignals ==
    (mode = "grid" /\ glog.returned /\ ~glog.parallel /\ glog.hasCb /\ NoFault) =>
        /\ \A i \in TileIds(grid) : glog.finalSignals[i] >= 1
        /\ glog.callbacks >= NumTiles(grid)

\* A sequential compute() with a callback over four tiles none of whose kernels
\* called back on its own: each tile was composited once.
C11_Witness ==
    /\ mode = "grid" /\ glog.returned /\ ~glog.parallel /\ glog.hasCb /\ NoFault
    /\ NumTiles(grid) = 4
    /\ \A i \in TileIds(grid) : glog.tileComposites[i] = 1
    /\ glog.callbacks = 4

\* C12 as stated: setEngineType leaves the scheduler's bounds (centre, diameter,
\* min, max and steps) as they were, whichever call set them and for every
\* aspect ratio, and with the current engine it changes nothing.
C12_SetEngineTypeKeepsBounds ==
    [][SchedSetEngineType =>
        /\ BoundsOf(grid') = BoundsOf(grid)
        /\ grid'.engineType = grid.engineType => grid' = grid]_vars

\* The bounds of calculator k are those of the rectangle (a, b) - (c, d) taken
\* as it is: min, max, twice the centre, the diameter the larger side, and the
\* steps times the pixel counts the sides.
ExplicitBoundsHold(k, a, b, c, d) ==
    /\ k.minr = a /\ k.mini = b /\ k.maxr = c /\ k.maxi = d
    /\ RMul(RInt(2), k.cre) = RAdd(a, c)
    /\ RMul(RInt(2), k.cim) = RAdd(b, d)
    /\ k.diam \in {RSub(c, a), RSub(d, b)}
    /\ ~RLess(k.diam, RSub(c, a)) /\ ~RLess(k.diam, RSub(d, b))
    /\ k.width > 0 => RMul(k.stepr, RInt(k.width)) = RSub(c, a)
    /\ k.height > 0 => RMul(k.stepi, RInt(k.height)) = RSub(d, b)

\* C13: after updateBoundsExplicit(a, b, c, d) the scheduler holds exactly the
\* bounds of that rectangle, with no aspect-ratio correction, and so does every
\* tile kernel for the rectangle the scheduler gave it.
C13_ExplicitBoundsExact ==
    mode = "grid" =>
        /\ glog.rect # << >> =>
             ExplicitBoundsHold(grid, glog.rect[1], glog.rect[2], glog.rect[3], glog.rect[4])
        /\ \A i \in TileIds(grid) :
             ExplicitBoundsHold(grid.tiles[i],
                                grid.tileInfos[i].minR, grid.tileInfos[i].minI,
                                grid.tileInfos[i].maxR, grid.tileInfos[i].maxI)

\* A scheduler of several tiles holding a rectangle given to updateBoundsExplicit
\* that does not have the view's aspect ratio, its larger side the vertical one.
C13_Witness ==
    /\ mode = "grid" /\ NumTiles(grid) > 1
    /\ grid.width > grid.height
    /\ glog.rect # << >>
    /\ grid.minr = RInt(0) /\ grid.maxr = RInt(1) /\ grid.mini = RInt(0) /\ grid.maxi = RInt(3)
    /\ grid.diam = RInt(3)
    /\ \A i \in TileIds(grid) : grid.tiles[i].width > 0 /\ grid.tiles[i].height > 0

\* Every entry of buffer d is an integer in [0, MAX_ITER].
InRange(d) == \A p \in DOMAIN d : d[p] \in 0 .. MAX_ITER

\* The buffer of kernel k and what every progress callback saw of it.
KernelInRange(k) == InRange(k.data) /\ \A c \in DOMAIN k.cbs : InRange(k.cbs[c])

MaxFieldW == 3
MaxFieldH == 2
MaxRect == 2
MaxIterArg == 7
RESERVOIR == 2
THRESHOLD_MARGIN == 5
TOP_DIVISOR == 5

SetMax(S) == CHOOSE m \in S : \A v \in S : v <= m
SetMin(S) == CHOOSE m \in S : \A v \in S : m <= v

NewChooser(w, h) == [width |-> w, height |-> h]

\* getIterationRange without the clamp of the rectangle to the field.
GetIterationRangeUnclamped(c, data, maxIter, x, y, w, h) ==
    LET cells == (x .. x + w - 1) \X (y .. y + h - 1)
        idx   == {cl[2] * c.width + cl[1] : cl \in cells} \cap DOMAIN data
        vals  == {data[p] : p \in idx} \cap (0 .. maxIter - 1)
    IN  [outMin |-> SetMin(vals \cup {maxIter}),
         outMax |-> SetMax(vals \cup {0}),
         reads  |-> cells]

\* getIterationRange: the least and the greatest value below maxIter inside
\* the rectangle, and the cells it read.
GetIterationRange(c, data, maxIter, x, y, w, h) ==
    LET x1 == IF x > 0 THEN x ELSE 0
        y1 == IF y > 0 THEN y ELSE 0
        x2 == Min(c.width, x + w)
        y2 == Min(c.height, y + h)
        cells == (x1 .. x2 - 1) \X (y1 .. y2 - 1)
        vals  == {data[cl[2] * c.width + cl[1]] : cl \in cells} \cap (0 .. maxIter - 1)
    IN  [outMin |-> SetMin(vals \cup {maxIter}),
         outMax |-> SetMax(vals \cup {0}),
         reads  |-> cells]

ScoreOf(range) == (range.outMax - range.outMin) * range.outMax

CalculateDiversityScore(c, data, maxIter, centerX, centerY, rectWidth, rectHeight) ==
    GetIterationRange(c, data, maxIter,
                      centerX - rectWidth \div 2, centerY - rectHeight \div 2,
                      rectWidth, rectHeight)

\* first pass of findInterestingPoint
MaxIterFound(c, data, maxIter) ==
    SetMax(({data[p] : p \in DOMAIN data} \cap (0 .. maxIter - 1)) \cup {0})

\* the qualifying pixels in the order of the second pass (row by row)
RECURSIVE QualifyingFrom(_, _, _, _, _)
QualifyingFrom(c, data, maxIter, threshold, p) ==
    IF p >= c.width * c.height THEN << >>
    ELSE IF data[p] >= threshold /\ data[p] < maxIter
         THEN <<(<<p % c.width, p \div c.width>>)>>
              \o QualifyingFrom(c, data, maxIter, threshold, p + 1)
         ELSE QualifyingFrom(c, data, maxIter, threshold, p + 1)

\* the reservoirs the second pass can hold after the first n qualifying pixels
RECURSIVE Reservoirs(_, _)
Reservoirs(pts, n) ==
    IF n = 0 THEN {<< >>}
    ELSE UNION {IF Len(r) < RESERVOIR
                THEN {Append(r, pts[n])}
                ELSE {r} \cup {[r EXCEPT ![j + 1] = pts[n]] :
                               j \in 0 .. Min(n, RESERVOIR) - 1}
                : r \in Reservoirs(pts, n - 1)}

\* a fallback to the middle pixel of the field, taken between the first and the
\* last pixel instead of at half the size
CentreBetweenPixels(c, reads) ==
    [found |-> FALSE, outX |-> (c.width - 1) \div 2, outY |-> (c.height - 1) \div 2,
     reads |-> reads]

\* the fallback of findInterestingPoint: the centre of the field
Centre(c, reads) ==
    [found |-> FALSE, outX |-> c.width \div 2, outY |-> c.height \div 2, reads |-> reads]

\* a choice among the top half of the candidates
TopCountHalf(size) == IF size \div 2 > 1 THEN size \div 2 ELSE 1

\* "int topCount = std::max(1, (int)(candidates.size() * 0.2))"
TopCount(size) == IF size \div TOP_DIVISOR > 1 THEN size \div TOP_DIVISOR ELSE 1

\* the first k entries that std::sort by descending score can leave at the
\* head of the candidates: any order among equal scores
RECURSIVE SortedPrefixes(_, _, _)
SortedPrefixes(cands, score, k) ==
    IF k = 0 \/ cands = {} THEN {<< >>}
    ELSE LET best == {q \in cands : \A r \in cands : score[r] <= score[q]}
         IN  UNION {{<<q>> \o rest : rest \in SortedPrefixes(cands \ {q}, score, k - 1)}
                    : q \in best}

\* scoring of one reservoir and the choice among the top scorers:
\* "idx = rand() % topCount; outX = candidates[idx].x"
PickFrom(c, scored, reads) ==
    LET candidates == {pt \in DOMAIN scored : ScoreOf(scored[pt]) > 0}
        topCount == TopCount(Cardinality(candidates))
        score == [pt \in candidates |-> ScoreOf(scored[pt])]
    IN  IF candidates = {} THEN {Centre(c, reads)}
        ELSE {[found |-> TRUE, outX |-> pre[idx + 1][1], outY |-> pre[idx + 1][2],
               reads |-> reads] :
              pre \in SortedPrefixes(candidates, score, topCount),
              idx \in 0 .. topCount - 1}

ScoreReservoir(c, data, maxIter, r, rectW, rectH) ==
    LET pts == {r[i] : i \in DOMAIN r}
        scored == [pt \in pts |->
                     CalculateDiversityScore(c, data, maxIter, pt[1], pt[2], rectW, rectH)]
    IN  PickFrom(c, scored, UNION {scored[pt].reads : pt \in pts})

\* the results of a call, each with the points the call held in sampledPoints
WithSampled(results, S) == {res @@ [sampled |-> S] : res \in results}

\* findInterestingPoint: every result the call can return
FindInterestingPoint(c, data, maxIter, zoomRectWidth, zoomRectHeight) ==
    LET maxIterFound == MaxIterFound(c, data, maxIter)
        pts == QualifyingFrom(c, data, maxIter, maxIterFound - THRESHOLD_MARGIN, 0)
    IN  IF maxIterFound = 0 THEN WithSampled({Centre(c, {})}, {})
        ELSE UNION {IF r = << >> THEN WithSampled({Centre(c, {})}, {})
                    ELSE WithSampled(ScoreReservoir(c, data, maxIter, r,
                                                    zoomRectWidth, zoomRectHeight),
                                     {r[i] : i \in DOMAIN r})
                    : r \in Reservoirs(pts, Len(pts))}

FieldValues(maxIter) == {0, 1, maxIter - 1, maxIter}

InitChooser ==
    /\ mode = "chooser"
    /\ \E w \in 1 .. MaxFieldW, h \in 1 .. MaxFieldH, maxIter \in {MAX_ITER, MaxIterArg} :
         \E data \in [0 .. w * h - 1 -> FieldValues(maxIter)],
            rw \in 0 .. MaxRect, rh \in 0 .. MaxRect :
           kern = [chooser |-> NewChooser(w, h), data |-> data, maxIter |-> maxIter,
                   rectW |-> rw, rectH |-> rh, result |-> << >>]
    /\ kpc = "idle" /\ plane = << >> /\ khist = << >>
    /\ grid = << >> /\ gpc = "none" /\ threads = << >> /\ glog = << >>

ChooserFind ==
    /\ mode = "chooser" /\ kpc = "idle"
    /\ \E res \in FindInterestingPoint(kern.chooser, kern.data, kern.maxIter,
                                       kern.rectW, kern.rectH) :
         kern' = [kern EXCEPT !.result = res]
    /\ kpc' = "returned"
    /\ UNCHANGED <<mode, plane, khist, gridVars>>

NextChooser == ChooserFind

SpecChooser == InitChooser /\ [][NextChooser]_vars

ChooserReturned == mode = "chooser" /\ kpc = "returned"

\* C15: whatever the field (width, height >= 1, values in [0, maxIter]) and the
\* size of the target rectangle (>= 0), the point returned by
\* findInterestingPoint lies in the field, and every cell read while scoring
\* lies in the field.
C15_PointAndReadsInField ==
    ChooserReturned =>
        /\ kern.result.outX \in 0 .. kern.chooser.width - 1
        /\ kern.result.outY \in 0 .. kern.chooser.height - 1
        /\ \A cl \in kern.result.reads :
             /\ cl[1] \in 0 .. kern.chooser.width - 1
             /\ cl[2] \in 0 .. kern.chooser.height - 1

C15_Witness ==
    /\ ChooserReturned /\ kern.result.found
    /\ kern.result.outX = 0 /\ kern.result.outY = kern.chooser.height - 1
    /\ kern.rectW = MaxRect /\ kern.rectH = MaxRect
    /\ kern.result.reads # {}

AllMaxIter == \A p \in DOMAIN kern.data : kern.data[p] = kern.maxIter

\* C16: on a field whose every pixel equals maxIter the call returns
\* found = false; and every call that returns found = false returns the point
\* (width / 2, height / 2).
C16_NotFoundIsCentre ==
    ChooserReturned =>
        /\ AllMaxIter => ~kern.result.found
        /\ ~kern.result.found =>
             /\ kern.result.outX = kern.chooser.width \div 2
             /\ kern.result.outY = kern.chooser.height \div 2

C16_Witness ==
    /\ ChooserReturned /\ ~kern.result.found
    /\ ~AllMaxIter /\ MaxIterFound(kern.chooser, kern.data, kern.maxIter) > 0
    /\ kern.chooser.width = MaxFieldW /\ kern.chooser.height = MaxFieldH


\* ---------------------------------------------------------------------------
\* A standalone GPU kernel, constructed with each outcome of its resource
\* initialisation.

MaxGpuW == 2
MaxGpuH == 2

\* ok; a shader that does not compile or a program that does not link (both
\* end in "if (!linked)"); a framebuffer that is not complete; no current
\* context ("if (!glGetString(GL_VERSION))").
GlInitOutcomes == {"ok", "compile", "link", "framebuffer", "nocontext"}

\* The kernel the constructor leaves. With a context, glCreateProgram and
\* glGenFramebuffers give non-zero names whatever follows. Without one the
\* constructor goes on to make its GL calls all the same: they do nothing and
\* leave the names zero, or the process stops there (crashed).
GpuConstructed(kind, w, h, outcome, crashed) ==
    [NewKernel(kind, w, h) EXCEPT
        !.gl = outcome # "nocontext",
        !.linked = outcome \in {"ok", "framebuffer"},
        !.complete = outcome \in {"ok", "compile", "link"},
        !.fault = outcome = "nocontext" /\ crashed]

GpuInitFailed(k) == ~(k.gl /\ k.linked /\ k.complete)

\* Bytes a texture that was never drawn on can hold.
UndefBytes == {<<0, 0>>, <<MAX_ITER, 0>>, <<255, 255>>}

InitGpu ==
    /\ mode = "gpu"
    /\ \E kind \in GpuEngines, w \in 1 .. MaxGpuW, h \in 1 .. MaxGpuH,
          outcome \in GlInitOutcomes, crashed \in BOOLEAN :
         /\ crashed => outcome = "nocontext"
         /\ kern = GpuConstructed(kind, w, h, outcome, crashed)
         /\ \E S \in Islands(w * h) : plane = PlaneOf(w, h, {}, {0}, S)
         /\ khist = [computed |-> FALSE, drew |-> FALSE, before |-> kern.data]
    /\ kpc = "idle"
    /\ grid = << >> /\ gpc = "none" /\ threads = << >> /\ glog = << >>

\* compute(); drew: the call went past its guard to glDrawArrays and
\* glReadPixels.
GpuKernelCompute ==
    /\ mode = "gpu" /\ ~kern.fault
    /\ \E cb \in BOOLEAN,
          undef \in IF kern.gl /\ kern.complete /\ ~kern.linked
                    THEN [Pixels(kern) -> UndefBytes]
                    ELSE {[p \in Pixels(kern) |-> <<0, 0>>]} :
         kern' = GpuComputeWith(kern, cb, undef)
    /\ khist' = [computed |-> TRUE, drew |-> kern.gl, before |-> kern.data]
    /\ UNCHANGED <<mode, plane, kpc, gridVars>>

\* reset()
GpuKernelReset ==
    /\ mode = "gpu" /\ ~kern.fault
    /\ kern' = GpuReset(kern)
    /\ khist' = [khist EXCEPT !.computed = FALSE]
    /\ UNCHANGED <<mode, plane, kpc, gridVars>>

NextGpu == GpuKernelCompute \/ GpuKernelReset

SpecGpu == InitGpu /\ [][NextGpu]_vars

\* C17: on a GPU kernel whose resource initialisation failed at construction
\* (compile, link, framebuffer, no context) compute() does nothing: no draw,
\* no readback, no callback, and the buffer is as it was.
C17_FailedInitComputeIsNoOp ==
    (mode = "gpu" /\ GpuInitFailed(kern) /\ khist.computed) =>
        /\ ~khist.drew
        /\ kern.cbs = << >>
        /\ kern.data = khist.before


\* ---------------------------------------------------------------------------
\* MandelbrotApp: the zoom requests. app holds the window size and the size of
\* the calculation (window / pixelSize); calc holds the calculator's bounds.

MaxWinW == 3
MaxWinH == 2
MaxPixelSize == 2
MaxZooms == 2
\* isZoomDisabled compares the diameter with 1e-15; here with 1 / ZoomLimitInv.
ZoomLimitInv == 2

\* int / int of C++: truncation towards zero
IntDiv(a, b) == Sign(a) * Sign(b) * (Abs(a) \div Abs(b))

NewApp(w, h, pixelSize) ==
    [width |-> w, height |-> h, calcWidth |-> w \div pixelSize, calcHeight |-> h \div pixelSize]

\* MandelbrotApp::isZoomDisabled
IsZoomDisabled(calc) == RLess(calc.diam, <<1, ZoomLimitInv>>)

\* the region of the window between two corners, on the complex plane
RegionBounds(app, calc, x1, y1, x2, y2) ==
    LET re1 == RAdd(calc.minr, RMul(RDiv(RInt(x1), RInt(app.width)),
                                    RMul(calc.stepr, RInt(app.calcWidth))))
        im1 == RAdd(calc.mini, RMul(RDiv(RInt(y1), RInt(app.height)),
                                    RMul(calc.stepi, RInt(app.calcHeight))))
        re2 == RAdd(calc.minr, RMul(RDiv(RInt(x2), RInt(app.width)),
                                    RMul(calc.stepr, RInt(app.calcWidth))))
        im2 == RAdd(calc.mini, RMul(RDiv(RInt(y2), RInt(app.height)),
                                    RMul(calc.stepi, RInt(app.calcHeight))))
    IN  UpdateBounds(calc, RDiv(RAdd(re1, re2), RInt(2)), RDiv(RAdd(im1, im2), RInt(2)),
                     RMax(RSub(re2, re1), RSub(im2, im1)))

\* MandelbrotApp::zoomToRegion
ZoomToRegion(app, calc, x1, y1, x2, y2) ==
    IF x1 = x2 \/ y1 = y2 THEN calc
    ELSE RegionBounds(app, calc, Min(x1, x2), Min(y1, y2),
                      IF x1 > x2 THEN x1 ELSE x2, IF y1 > y2 THEN y1 ELSE y2)

\* the zoom-out branch of zoomToRect
ZoomOut(app, calc, x1, y1, x2, y2) ==
    LET scale == RMax(RDiv(RInt(app.width), RInt(x2 - x1)),
                      RDiv(RInt(app.height), RInt(y2 - y1)))
        offsetX == IntDiv(x1 + x2, 2) - app.width \div 2
        offsetY == IntDiv(y1 + y2, 2) - app.height \div 2
        effectiveStepR == RMul(calc.stepr, RDiv(RInt(app.calcWidth), RInt(app.width)))
        effectiveStepI == RMul(calc.stepi, RDiv(RInt(app.calcHeight), RInt(app.height)))
    IN  UpdateBounds(calc,
                     RAdd(calc.cre, RMul(RMul(RInt(offsetX), effectiveStepR), scale)),
                     RAdd(calc.cim, RMul(RMul(RInt(offsetY), effectiveStepI), scale)),
                     RMul(calc.diam, scale))

\* MandelbrotApp::zoomToRect, as far as the bounds go
ZoomToRect(app, calc, x1, y1, x2, y2, inverse) ==
    IF ~inverse /\ IsZoomDisabled(calc) THEN calc
    ELSE IF inverse THEN ZoomOut(app, calc, x1, y1, x2, y2)
    ELSE ZoomToRegion(app, calc, x1, y1, x2, y2)

InitZoom ==
    /\ mode = "zoom"
    /\ \E w \in 2 .. MaxWinW, h \in 2 .. MaxWinH, pixelSize \in 1 .. MaxPixelSize :
         /\ khist = [app |-> NewApp(w, h, pixelSize), zooms |-> 0, request |-> << >>,
                     before |-> << >>]
         /\ kern = ZoomBounds(w \div pixelSize, h \div pixelSize)
    /\ kpc = "idle" /\ plane = << >>
    /\ grid = << >> /\ gpc = "none" /\ threads = << >> /\ glog = << >>

\* One zoom request; khist keeps the request and the bounds before it.
AppZoomToRect ==
    /\ mode = "zoom" /\ khist.zooms < MaxZooms
    /\ \E x1 \in 0 .. khist.app.width, x2 \in 0 .. khist.app.width,
          y1 \in 0 .. khist.app.height, y2 \in 0 .. khist.app.height,
          inverse \in BOOLEAN :
         /\ kern' = ZoomToRect(khist.app, kern, x1, y1, x2, y2, inverse)
         /\ khist' = [khist EXCEPT !.zooms = @ + 1,
                                   !.request = [x1 |-> x1, y1 |-> y1, x2 |-> x2, y2 |-> y2,
                                                inverse |-> inverse],
                                   !.before = kern]
    /\ UNCHANGED <<mode, plane, kpc, gridVars>>

NextZoom == AppZoomToRect

SpecZoom == InitZoom /\ [][NextZoom]_vars

ZeroAreaRequest ==
    /\ mode = "zoom" /\ khist.zooms > 0
    /\ (khist.request.x1 = khist.request.x2 \/ khist.request.y1 = khist.request.y2)

\* C18: a zoom request whose rectangle has zero area (x1 = x2 or y1 = y2)
\* leaves the bounds (centre, diameter, minima, maxima, steps) as they were,
\* for zoom-in and zoom-out alike.
C18_ZeroAreaKeepsBounds == ZeroAreaRequest => kern = khist.before


\* ---------------------------------------------------------------------------
\* The scheduler as MandelbrotApp builds it: constructed, then given its engine,
\* here the Standard or the SIMD engine, over fields with an island anywhere.

InitCompose ==
    /\ mode = "grid"
    /\ \E w \in 1 .. MaxSchedW, h \in 1 .. MaxSchedH,
          rows \in 1 .. MaxSchedRows, cols \in 1 .. MaxSchedCols,
          type \in {"standard", "simd"} :
         /\ grid = GridSetEngineType(NewGrid(w, h, rows, cols), type, FALSE)
         /\ \E pr \in TrajPairs, S \in Islands(w * h) :
              plane = PlaneOf(w, h, pr[1], pr[2], S)
    /\ gpc = "idle" /\ threads = << >> /\ glog = GlogInit(grid)
    /\ kern = << >> /\ kpc = "none" /\ khist = << >>

NextCompose ==
    \/ SchedSetSpeedMode
    \/ SchedComputeSequential
    \/ SchedComputeParallel
    \/ SchedSpawn
    \/ WorkerStep
    \/ SchedJoin
    \/ SchedComputeEnd

SpecCompose == InitCompose /\ [][NextCompose]_vars

\* The scheduler of the same view, bounds, engine and speed mode with one tile.
OneByOne(g) ==
    CreateTiles(CalculateTileGeometry([g EXCEPT !.gridRows = 1, !.gridCols = 1]), FALSE)

\* The unified buffer compute() leaves on the 1 x 1 scheduler.
OneByOneBuffer(g) ==
    ComputeEnd(SequentialTiles([g |-> OneByOne(g), l |-> GlogInit(OneByOne(g))],
                               0, FALSE)).g.data

SchedulerReturned == mode = "grid" /\ gpc = "idle" /\ glog.returned /\ NoFault

\* C19: after compute() of the scheduler with the Standard or the SIMD engine,
\* the unified buffer is the buffer the 1 x 1 scheduler of the same view
\* computes, whatever the grid (no call having run into undefined behaviour).
C19_GridEqualsOneByOne ==
    (SchedulerReturned /\ grid.engineType \in {"standard", "simd"}) =>
        grid.data = OneByOneBuffer(grid)

C19_Witness ==
    /\ SchedulerReturned /\ grid.engineType = "simd"
    /\ grid.gridRows = MaxSchedRows /\ grid.gridCols = MaxSchedCols
    /\ grid.width = MaxSchedW /\ grid.height = MaxSchedH
    /\ grid.data[grid.width * grid.height - 1] = 0
    /\ \E p \in DOMAIN grid.data : grid.data[p] = MAX_ITER


\* ---------------------------------------------------------------------------
\* The parallel branch alone, on a row of 1 .. MaxPartTiles tiles of the
\* Standard engine, for 1 .. MaxWorkers reported hardware threads.

MaxPartTiles == 4
MaxWorkers == 4

InitPartition ==
    /\ mode = "grid"
    /\ \E w \in 1 .. MaxPartTiles, cols \in 1 .. MaxPartTiles :
         /\ cols <= w
         /\ grid = GridSetEngineType(
                       GridSetSpeedMode(NewGrid(w, 1, 1, cols), TRUE), "standard", FALSE)
         /\ plane = PlaneOf(w, 1, {}, {0}, {0})
    /\ gpc = "idle" /\ threads = << >> /\ glog = GlogInit(grid)
    /\ kern = << >> /\ kpc = "none" /\ khist = << >>

PartitionComputeParallel ==
    \E hc \in 1 .. MaxWorkers, cb \in BOOLEAN : ComputeParallelWith(hc, cb)

NextPartition ==
    \/ PartitionComputeParallel
    \/ SchedSpawn
    \/ WorkerStep
    \/ SchedJoin
    \/ SchedComputeEnd

SpecPartition == InitPartition /\ [][NextPartition]_vars

\* ceil(n / T) for n, T >= 1
CeilDiv(n, T) == CHOOSE k \in 0 .. n : k * T >= n /\ (k - 1) * T < n

\* the workers t < T with t * ceil(n / T) < n
WorkersStarted(n, T) == {t \in 0 .. T - 1 : t * CeilDiv(n, T) < n}

\* C20: in parallel mode with n >= 1 tiles and T >= 1 workers, k = ceil(n / T):
\* worker t is started only if t * k < n and receives [t * k, min((t + 1) * k, n));
\* the ranges follow one another from 0 to n; no tile is computed twice, and
\* when compute() returns every tile has been computed exactly once.
C20_RangesPartitionTiles ==
    (mode = "grid" /\ glog.parallel /\ glog.workers >= 1) =>
        LET n == NumTiles(grid)
            T == glog.workers
            k == CeilDiv(n, T)
        IN  /\ \A i \in DOMAIN glog.ranges :
                 /\ i - 1 \in WorkersStarted(n, T)
                 /\ glog.ranges[i].startIdx = (i - 1) * k
                 /\ glog.ranges[i].endIdx = Min(i * k, n)
            /\ \A i \in TileIds(grid) : glog.computes[i] <= 1
            /\ glog.returned =>
                 /\ Len(glog.ranges) = Cardinality(WorkersStarted(n, T))
                 /\ glog.ranges[1].startIdx = 0
                 /\ glog.ranges[Len(glog.ranges)].endIdx = n
                 /\ \A i \in 1 .. Len(glog.ranges) - 1 :
                      glog.ranges[i].endIdx = glog.ranges[i + 1].startIdx
                 /\ \A i \in TileIds(grid) : glog.computes[i] = 1

\* Three tiles on two workers: a last range cut by n, and a return.
C20_Witness ==
    /\ mode = "grid" /\ glog.parallel /\ glog.returned
    /\ NumTiles(grid) = 3 /\ glog.workers = 2
    /\ glog.ranges = <<[startIdx |-> 0, endIdx |-> 2], [startIdx |-> 2, endIdx |-> 3]>>
    /\ \A i \in TileIds(grid) : glog.computes[i] = 1


\* The events of a sequential compute() over n tiles, in order.
RECURSIVE SequentialOrder(_, _)
SequentialOrder(i, n) ==
    IF i < n
    THEN <<[ev |-> "compute", tile |-> i], [ev |-> "final", tile |-> i]>>
         \o SequentialOrder(i + 1, n)
    ELSE << >>

\* C21: in sequential mode the tiles are computed one after the other in
\* increasing index, each tile's final composite and signal coming before the
\* next tile's compute(); every write to the unified buffer made while tile i
\* is current is inside tile i's rectangle, and at every signal the rectangles
\* of the tiles still to come are unwritten.
C21_SequentialTileByTile ==
    (mode = "grid" /\ gpc = "idle" /\ glog.returned /\ ~glog.parallel /\ NoFault) =>
        /\ glog.order = SequentialOrder(0, NumTiles(grid))
        /\ ~glog.stray
        /\ ~glog.later
        /\ glog.touched = UNION {TileRect(grid, i) : i \in TileIds(grid)}

C21_Witness ==
    /\ mode = "grid" /\ gpc = "idle" /\ glog.returned /\ ~glog.parallel /\ NoFault
    /\ NumTiles(grid) = MaxSchedRows * MaxSchedCols
    /\ grid.engineType = "simd" /\ glog.hasCb
    /\ glog.callbacks > NumTiles(grid)
    /\ glog.touched = DOMAIN grid.data
    /\ Len(glog.order) = 2 * NumTiles(grid)


\* ---------------------------------------------------------------------------
\* Every call of the scheduler, in any order.

MaxCallsW == 2
MaxCallsH == 1

InitCalls ==
    /\ mode = "grid"
    /\ \E w \in 1 .. MaxCallsW, h \in 1 .. MaxCallsH,
          rows \in 1 .. MaxSchedRows, cols \in 1 .. MaxSchedCols :
         /\ grid = NewGrid(w, h, rows, cols)
         /\ plane = PlaneOf(w, h, {}, {0}, {0})
    /\ gpc = "idle" /\ threads = << >> /\ glog = GlogInit(grid)
    /\ kern = << >> /\ kpc = "none" /\ khist = << >>

NextCalls ==
    \/ SchedUpdateBounds
    \/ SchedUpdateBoundsExplicit
    \/ SchedSetEngineType
    \/ SchedSetSpeedMode
    \/ SchedReset
    \/ SchedComputeSequential
    \/ SchedComputeParallel
    \/ SchedSpawn
    \/ WorkerStep
    \/ SchedJoin
    \/ SchedComputeEnd

SpecCalls == InitCalls /\ [][NextCalls]_vars

\* A kernel as its constructor leaves it: the buffer at MAX_ITER (zero for a
\* GPU kernel), no flag set, the queue empty.
FreshKernel(k) ==
    /\ \A p \in DOMAIN k.data : k.data[p] = IF k.kind \in GpuEngines THEN 0 ELSE MAX_ITER
    /\ \A p \in DOMAIN k.done : k.done[p] = 0
    /\ k.queueHead = 0 /\ k.queueTail = 0

\* C22: the scheduler owns rows * cols tile kernels, each of the selected
\* engine's kind, with the pixel size and the explicit bounds of its tile
\* descriptor and the scheduler's speedMode; after a bounds change or a change
\* of engine type every kernel is as freshly constructed.
C22_TilesFollowScheduler ==
    (mode = "grid" /\ gpc # "crashed") =>
        /\ DOMAIN grid.tiles = 0 .. grid.gridRows * grid.gridCols - 1
        /\ \A i \in DOMAIN grid.tiles :
             /\ grid.tiles[i].kind = grid.engineType
             /\ grid.tiles[i].width = grid.tileInfos[i].width
             /\ grid.tiles[i].height = grid.tileInfos[i].height
             /\ DOMAIN grid.tiles[i].data = 0 .. grid.tileInfos[i].width * grid.tileInfos[i].height - 1
             /\ grid.tiles[i].minr = grid.tileInfos[i].minR
             /\ grid.tiles[i].mini = grid.tileInfos[i].minI
             /\ grid.tiles[i].maxr = grid.tileInfos[i].maxR
             /\ grid.tiles[i].maxi = grid.tileInfos[i].maxI
             /\ grid.tiles[i].speedMode = grid.speedMode
             /\ glog.rebuilt => FreshKernel(grid.tiles[i])

\* A bounds change after a compute() of Border tiles in speed mode.
C22_Witness ==
    /\ mode = "grid" /\ gpc = "idle" /\ glog.rebuilt /\ glog.rect # << >>
    /\ grid.engineType = "border" /\ grid.speedMode
    /\ NumTiles(grid) = MaxSchedRows * MaxSchedCols
    /\ \E p \in DOMAIN grid.data : grid.data[p] = 0


\* ---------------------------------------------------------------------------
\* The Border kernel's queue loop under other dequeue orders.

MaxOrderW == 5
MaxOrderH == 5
MaxFreePixels == 9

\* The FIFO branch of the loop body: "p = queue[queueTail++]" with the wrap.
TailEntry(k) == k.queue[k.queueTail]

TakeTail(k) ==
    [k EXCEPT !.queueTail = IF k.queueTail + 1 = k.width * k.height + 1
                            THEN 0 ELSE k.queueTail + 1]

\* A LIFO branch that reads the slot at queueHead, not the one below it.
HeadEntryAtHead(k) == k.queue[k.queueHead]

\* The LIFO branch, which is the whole loop body of the earlier revision:
\* "if (queueHead == 0) queueHead = queue.size(); p = queue[--queueHead]".
HeadEntry(k) ==
    k.queue[(IF k.queueHead = 0 THEN k.width * k.height + 1 ELSE k.queueHead) - 1]

TakeHead(k) ==
    [k EXCEPT !.queueHead = (IF k.queueHead = 0 THEN k.width * k.height + 1
                             ELSE k.queueHead) - 1]

\* The pixels scan() enqueued, taking the kernel from k to k2.
Enqueued(k, k2) == {q \in Pixels(k) : HasQueued(k2.done[q]) /\ ~HasQueued(k.done[q])}

\* The pending entries as a collection without order: p is taken out, the
\* pixels its scan enqueued are put in.
BagAfter(pending, k, k2, p) == (pending \ {p}) \cup Enqueued(k, k2)

\* compute() as coded, from kernel k: the buffer it leaves and the pixels
\* loaded when the queue loop ends.
CodedOutcome(k, cb) ==
    [data |-> BorderCompute(k, cb).data,
     traced |-> LoadedSet(Drain(BorderBegin(k, cb)))]

\* The largest fields on which the branches are mixed freely: the island in a
\* corner (the scans enqueue the corner's diagonal neighbour, the centre is
\* left to the fill) or below the middle of the top edge (the centre is reached
\* only through pixels the scans enqueue).
LargeMixFields ==
    {PlaneOf(MaxOrderW, MaxOrderH, {}, {0}, {c}) : c \in {0, MaxOrderW + 2}}

InitOrder ==
    /\ mode = "order"
    /\ \E w \in 1 .. MaxOrderW, h \in 1 .. MaxOrderH :
         /\ kern = NewKernel("border", w, h)
         /\ \E pr \in TrajPairs, S \in Islands(w * h) :
              plane = PlaneOf(w, h, pr[1], pr[2], S)
    /\ kpc = "idle"
    /\ khist = [policy |-> "none", ref |-> << >>, pending |-> {}, grew |-> FALSE,
                traced |-> {}]
    /\ grid = << >> /\ gpc = "none" /\ threads = << >> /\ glog = << >>

\* compute() up to the queue loop; the entries are then taken always by the
\* FIFO branch of the loop body, always by its LIFO branch, by either branch
\* ("mix"), or in any order at all ("bag").
OrderBegin ==
    /\ mode = "order" /\ kpc = "idle"
    /\ \E cb \in BOOLEAN, policy \in {"fifo", "lifo", "mix", "bag"} :
         /\ policy \in {"mix", "bag"} =>
                \/ kern.width * kern.height <= MaxFreePixels
                \/ policy = "mix" /\ ~cb /\ plane \in LargeMixFields
         /\ kern' = BorderBegin(kern, cb)
         /\ khist' = [policy |-> policy, ref |-> CodedOutcome(kern, cb),
                      pending |-> IF policy = "bag"
                                  THEN {p \in Pixels(kern') : HasQueued(kern'.done[p])}
                                  ELSE {},
                      grew |-> FALSE, traced |-> {}]
    /\ kpc' = "drain"
    /\ UNCHANGED <<mode, plane, gridVars>>

\* One pass of the loop taking the oldest pending entry.
OrderStepTail ==
    /\ mode = "order" /\ kpc = "drain" /\ khist.policy \in {"fifo", "mix"}
    /\ kern.queueTail # kern.queueHead
    /\ kern' = DrainCount(Scan(TakeTail(kern), TailEntry(kern)))
    /\ khist' = [khist EXCEPT !.grew = @ \/ Enqueued(kern, kern') # {}]
    /\ UNCHANGED <<mode, plane, kpc, gridVars>>

\* One pass of the loop taking the most recent pending entry.
OrderStepHead ==
    /\ mode = "order" /\ kpc = "drain" /\ khist.policy \in {"lifo", "mix"}
    /\ kern.queueTail # kern.queueHead
    /\ kern' = DrainCount(Scan(TakeHead(kern), HeadEntry(kern)))
    /\ khist' = [khist EXCEPT !.grew = @ \/ Enqueued(kern, kern') # {}]
    /\ UNCHANGED <<mode, plane, kpc, gridVars>>

\* One pass of the loop taking any pending entry; the ring is left as the
\* seeding filled it, the pending entries are khist.pending.
OrderStepAny ==
    /\ mode = "order" /\ kpc = "drain" /\ khist.policy = "bag"
    /\ \E p \in khist.pending :
         LET k2 == DrainCount(Scan(kern, p))
         IN  /\ kern' = [k2 EXCEPT !.queue = kern.queue, !.queueHead = kern.queueHead]
             /\ khist' = [khist EXCEPT !.pending = BagAfter(@, kern, k2, p),
                                       !.grew = @ \/ Enqueued(kern, k2) # {}]
    /\ UNCHANGED <<mode, plane, kpc, gridVars>>

\* Nothing pending: the forward fill and the return.
OrderFill ==
    /\ mode = "order" /\ kpc = "drain"
    /\ IF khist.policy = "bag" THEN khist.pending = {}
       ELSE kern.queueTail = kern.queueHead
    /\ kern' = BorderEnd(kern)
    /\ khist' = [khist EXCEPT !.traced = LoadedSet(kern)]
    /\ kpc' = "done"
    /\ UNCHANGED <<mode, plane, gridVars>>

\* reset() after the compute().
OrderReset ==
    /\ mode = "order" /\ kpc = "done"
    /\ kern' = BorderReset(kern)
    /\ kpc' = "idle"
    /\ UNCHANGED <<mode, plane, khist, gridVars>>

NextOrder ==
    \/ OrderBegin
    \/ OrderStepTail
    \/ OrderStepHead
    \/ OrderStepAny
    \/ OrderFill
    \/ OrderReset

SpecOrder == InitOrder /\ [][NextOrder]_vars

\* C23: whatever order the pending entries are taken in (always the oldest,
\* always the most recent, any mix of the two, any pending entry), compute() leaves the buffer that
\* the coded order leaves, and the same pixels are computed during tracing.
C23_OrderIndependent ==
    (mode = "order" /\ kpc = "done") =>
        /\ kern.data = khist.ref.data
        /\ khist.traced = khist.ref.traced

\* A run mixing the two branches in which scans enqueued further pixels and
\* some pixel was left to the fill.
C23_Witness ==
    /\ mode = "order" /\ kpc = "done" /\ khist.policy = "mix"
    /\ kern.processed > kern.width + kern.height
    /\ khist.grew
    /\ kern.filled # {}


\* ---------------------------------------------------------------------------
\* The forward fill.

\* The nearest pixel before p in row-major order that is in the set L.
NearestBefore(L, p) == CHOOSE q \in L : q < p /\ \A r \in L : r < p => r <= q

\* C24: when compute() of the Border kernel returns, a pixel that was LOADED
\* when the queue loop ended holds the value it held then, and every other
\* pixel holds the value of the nearest pixel before it in row-major order
\* that was LOADED when the queue loop ended.
C24_FillCopiesNearestTraced ==
    (mode = "kernel" /\ kern.kind = "border" /\ kpc = "idle" /\ ~khist.clean) =>
        \A p \in Pixels(kern) :
            IF p \in khist.pre.loaded
            THEN kern.data[p] = khist.pre.data[p]
            ELSE /\ \E q \in khist.pre.loaded : q < p
                 /\ kern.data[p] = khist.pre.data[NearestBefore(khist.pre.loaded, p)]

\* A compute() from a reset kernel that left a pixel to the fill whose value
\* differs from what the buffer held for it when the queue loop ended.
C24_Witness ==
    /\ mode = "kernel" /\ kern.kind = "border" /\ kpc = "idle" /\ ~khist.clean
    /\ khist.fromClean /\ khist.stage = 3
    /\ \E p \in Pixels(kern) \ khist.pre.loaded : kern.data[p] # khist.pre.data[p]


\* ---------------------------------------------------------------------------
\* The order of the dequeues.

\* C25: counting the dequeues of one compute() of the Border kernel from 1,
\* the 4th, 8th, 12th, ... take the most recently enqueued pending pixel and
\* every other dequeue takes the oldest pending pixel.
C25_EveryFourthFromHead ==
    (mode = "kernel" /\ kern.kind = "border") =>
        \A n \in 1 .. Len(khist.deq) :
            /\ khist.deq[n].lifo <=> (n % 4 = 0)
            /\ khist.deq[n].pixel = IF n % 4 = 0 THEN khist.deq[n].newest
                                    ELSE khist.deq[n].oldest

\* A compute() whose 4th and 8th dequeues had different pixels at the two ends,
\* the 8th taking a pixel that a scan had enqueued.
C25_Witness ==
    /\ mode = "kernel" /\ kern.kind = "border" /\ kpc = "idle"
    /\ Len(khist.deq) >= 8
    /\ khist.deq[4].newest # khist.deq[4].oldest
    /\ khist.deq[8].newest # khist.deq[8].oldest
    /\ LET p == khist.deq[8].pixel
       IN  /\ p % kern.width \in 1 .. kern.width - 2
           /\ p \div kern.width \in 1 .. kern.height - 2


\* ---------------------------------------------------------------------------
\* The ring.

\* The pixels enqueued since compute() was entered, in the order of their
\* leaving the queue, then those still pending.
EnqueuedSoFar == [n \in 1 .. Len(khist.deq) |-> khist.deq[n].pixel] \o khist.pend

\* C26: on a Border kernel no pixel is enqueued twice or scanned twice within
\* a compute(), 0 <= queueTail <= queueHead <= width * height at all times,
\* the pending entries are the slots between the two indices, and the queue
\* loop ends with queueTail = queueHead after at most width * height dequeues.
C26_RingNeverWraps ==
    (mode = "kernel" /\ kern.kind = "border") =>
        /\ 0 <= kern.queueTail /\ kern.queueTail <= kern.queueHead
        /\ kern.queueHead <= kern.width * kern.height
        /\ Len(khist.pend) = kern.queueHead - kern.queueTail
        /\ \A i, j \in 1 .. Len(EnqueuedSoFar) :
               EnqueuedSoFar[i] = EnqueuedSoFar[j] => i = j
        /\ Len(khist.deq) <= kern.width * kern.height
        /\ kern.processed <= kern.width * kern.height
        /\ kpc = "idle" => kern.queueTail = kern.queueHead

\* A compute() from a reset kernel that enqueued and scanned every pixel of a
\* tile with pixels off its edge.
C26_Witness ==
    /\ mode = "kernel" /\ kern.kind = "border" /\ kpc = "idle"
    /\ khist.fromClean /\ khist.stage = 3
    /\ kern.width >= 3 /\ kern.height >= 3
    /\ Len(khist.deq) = kern.width * kern.height
    /\ kern.queueTail = kern.queueHead /\ kern.queueHead > 0


\* ---------------------------------------------------------------------------
\* compute() after compute().

\* compute() of the Border kernel has returned, and the call before it on the
\* kernel was a compute() too.
ComputedTwice ==
    /\ mode = "kernel" /\ kern.kind = "border" /\ kpc = "idle"
    /\ ~khist.clean /\ ~khist.fromClean

\* C27 as stated: a second compute() of the Border kernel with no reset() in
\* between leaves the buffer the first compute() left.
C27_SecondComputeKeepsBuffer == ComputedTwice => kern.data = khist.prev

\* C27 amended: a compute() of the Border kernel after reset() reproduces the
\* buffer of the compute() before the reset(); a compute() that follows a
\* compute() with no reset() in between leaves every element 0.
C27_SecondComputeNeedsReset ==
    (mode = "kernel" /\ kern.kind = "border" /\ kpc = "idle") =>
        /\ (khist.stage = 3 /\ khist.firstClean /\ khist.fromClean) =>
               kern.data = khist.first
        /\ (~khist.clean /\ ~khist.fromClean) => \A p \in Pixels(kern) : kern.data[p] = 0

\* A second compute() with no reset() in between on a tile with pixels off its
\* edge, whose first compute() left no element 0.
C27_Witness ==
    /\ ComputedTwice
    /\ kern.width >= 3 /\ kern.height >= 3
    /\ \A p \in Pixels(kern) : khist.prev[p] # 0 /\ kern.data[p] = 0


\* ---------------------------------------------------------------------------
\* Tiles without pixels.

\* C28: whatever the view and the grid, tiles of width or height 0 included,
\* no tile kernel of the scheduler indexes outside its vectors or divides by
\* zero in a compute() with the Border, Standard or SIMD engine.
C28_EveryAccessInBounds ==
    (mode = "grid" /\ grid.engineType \in {"border", "standard", "simd"}) =>
        \A i \in TileIds(grid) : ~grid.tiles[i].fault


\* ---------------------------------------------------------------------------
\* Any number of hardware threads.

\* C29: whatever hardware_concurrency() reports, 0 and values above the
\* number of tiles included, a compute() in parallel mode returns, and has
\* then computed every tile exactly once.
C29_ParallelAnyConcurrency ==
    (mode = "grid" /\ glog.parallel) =>
        /\ gpc # "crashed"
        /\ ~glog.fault
        /\ glog.returned => \A i \in TileIds(grid) : glog.computes[i] = 1


\* ---------------------------------------------------------------------------
\* The choice among the scored candidates, on its own: the sampled points are
\* the pixels of one row, their ranges are drawn freely.

MaxPick == 10

\* Ranges with score 0 (no value below maxIter), 1 and 4.
PickRanges ==
    {[outMin |-> MAX_ITER, outMax |-> 0, reads |-> {}],
     [outMin |-> 0, outMax |-> 1, reads |-> {}],
     [outMin |-> 0, outMax |-> 2, reads |-> {}]}

InitPick ==
    /\ mode = "pick"
    /\ \E n \in 1 .. MaxPick :
         \E scored \in [{<<x, 0>> : x \in 0 .. n - 1} -> PickRanges] :
           kern = [chooser |-> NewChooser(n, 1), scored |-> scored, result |-> << >>]
    /\ kpc = "idle" /\ plane = << >> /\ khist = << >>
    /\ grid = << >> /\ gpc = "none" /\ threads = << >> /\ glog = << >>

\* the part of findInterestingPoint after the scoring
PickTop ==
    /\ mode = "pick" /\ kpc = "idle"
    /\ \E res \in PickFrom(kern.chooser, kern.scored, {}) :
         kern' = [kern EXCEPT !.result = res]
    /\ kpc' = "returned"
    /\ UNCHANGED <<mode, plane, khist, gridVars>>

NextPick ==
    \/ ChooserFind
    \/ PickTop

SpecPick == (InitChooser \/ InitPick) /\ [][NextPick]_vars

\* The score of the rectangle centred on pt: (max - min) * max of the values
\* below maxIter in the part of the rectangle inside the field, with min =
\* maxIter and max = 0 when there is none.
RectScore(pt) ==
    LET x0 == pt[1] - kern.rectW \div 2
        y0 == pt[2] - kern.rectH \div 2
        inside == {p \in DOMAIN kern.data :
                     /\ p % kern.chooser.width \in x0 .. x0 + kern.rectW - 1
                     /\ p \div kern.chooser.width \in y0 .. y0 + kern.rectH - 1}
        vals == {kern.data[p] : p \in inside} \cap (0 .. kern.maxIter - 1)
        hi == SetMax(vals \cup {0})
        lo == SetMin(vals \cup {kern.maxIter})
    IN  (hi - lo) * hi

\* The largest value below maxIter in the field, 0 when there is none.
LargestBelowMaxIter ==
    SetMax(({kern.data[p] : p \in DOMAIN kern.data} \cap (0 .. kern.maxIter - 1)) \cup {0})

\* The pixels of the field that qualify: at least the largest value below
\* maxIter less 5, and below maxIter.
QualifyingPixels ==
    {<<p % kern.chooser.width, p \div kern.chooser.width>> :
       p \in {q \in DOMAIN kern.data :
                /\ kern.data[q] < kern.maxIter
                /\ kern.data[q] >= LargestBelowMaxIter - 5}}

\* out is among the first max(1, floor(n / 5)) of the n positive-scoring
\* points of S in some order of descending score.
InTopFifth(out, S, score) ==
    LET positive == {q \in S : score[q] > 0}
        n == Cardinality(positive)
    IN  /\ out \in positive
        /\ Cardinality({q \in positive : score[q] > score[out]})
               < (IF n \div 5 > 1 THEN n \div 5 ELSE 1)

\* C30: when findInterestingPoint returns found = true, the returned pixel
\* qualifies (largest value below maxIter less 5 <= v < maxIter), its
\* rectangle's score is positive, and it is among the first max(1, floor(n/5))
\* of the n positive-scoring sampled points by descending score; in a call
\* that reaches the sampling pass (some value of the field is above 0 and
\* below maxIter) at most RESERVOIR points are sampled, all of them qualify,
\* and when at most RESERVOIR pixels qualify all of them are sampled.
C30_FoundIsTopCandidate ==
    /\ (mode = "chooser" /\ kpc = "returned" /\ LargestBelowMaxIter > 0) =>
          LET out == <<kern.result.outX, kern.result.outY>>
              S == kern.result.sampled
          IN  /\ S \subseteq QualifyingPixels
              /\ Cardinality(S) <= RESERVOIR
              /\ Cardinality(QualifyingPixels) <= RESERVOIR => S = QualifyingPixels
              /\ kern.result.found =>
                    /\ out \in S
                    /\ RectScore(out) > 0
                    /\ InTopFifth(out, S, [q \in S |-> RectScore(q)])
    /\ (mode = "pick" /\ kpc = "returned" /\ kern.result.found) =>
          InTopFifth(<<kern.result.outX, kern.result.outY>>, DOMAIN kern.scored,
                     [q \in DOMAIN kern.scored |-> ScoreOf(kern.scored[q])])

\* A call that returned found = true from a full reservoir that left a
\* qualifying pixel out and held a positive-scoring point the call did not
\* return.
C30_Witness ==
    /\ mode = "chooser" /\ kpc = "returned" /\ kern.result.found
    /\ Cardinality(kern.result.sampled) = RESERVOIR
    /\ Cardinality(QualifyingPixels) > RESERVOIR
    /\ \E q \in kern.result.sampled :
         /\ q # <<kern.result.outX, kern.result.outY>>
         /\ RectScore(q) > 0
         /\ RectScore(q) < RectScore(<<kern.result.outX, kern.result.outY>>)

====
